---- MODULE Spec2Model ----
(***************************************************************************)
(* Model of the revisioned place store, the place search index and the     *)
(* flows that compose them (openfairdb).                                   *)
(*                                                                         *)
(* The SQLite store is the record db (one field per table, rows as         *)
(* records).  Gateway methods are operators that take a store value and    *)
(* return [db, res, ...]: the store after the statements that were         *)
(* executed, and the result of the call.  Transaction models               *)
(* connection.transaction: it keeps the new store value only when the      *)
(* closure returned Ok.                                                    *)
(***************************************************************************)
EXTENDS Integers, Sequences, FiniteSets, TLC

VARIABLES
    db,               \* the SQLite store: one field per table
    debug_assertions, \* TRUE in a build with debug assertions enabled
    clock,            \* Timestamp::now()
    last,             \* outcome of the last direct gateway call
    task,             \* per request task: the flow it runs and its position
    storeLock,        \* holder of the exclusive store handle (0: nobody)
    idxWriter,        \* documents as seen by the index writer (incl. queued ops)
    idxReader,        \* documents as seen by the searcher of the index reader
    notified,         \* places for which notify.place_added has been called
    on_conflict,      \* conflict clause of the one-token-per-user constraint
    budget,           \* number of flows that may still start
    indexMutex        \* the Mutex of the SearchEngine: its holder, and poisoned or not

vars == <<db, debug_assertions, clock, last, task, storeLock, idxWriter, idxReader,
          notified, on_conflict, budget, indexMutex>>

---------------------------------------------------------------------------
(* Bounds *)

MaxPlaces == 2
MaxRev == 2
MaxTime == 2
MaxTags == 1
MaxRatings == 2
MaxComments == 2
MaxTokenUsers == 1
MaxNonce == 2
MaxTasks == 2
MaxLog == 4
MaxFlows == 3
MaxSerialFlows == 3
MaxPlaceFlows == 4
MaxPostFlows == 3
RawLatMax == 20      \* the raw latitude of 90 degrees
RawLngMax == 20      \* the raw longitude of 180 degrees
MaxLimit == 3        \* the largest limit of a search

PlaceUids == 1..MaxPlaces
Versions == 0..MaxRev
Times == 1..MaxTime
TagIds == 1..MaxTags
RatingUids == 1..MaxRatings
CommentUids == 1..MaxComments
Nonces == 1..MaxNonce
Tasks == 1..MaxTasks

None == 0

---------------------------------------------------------------------------
(* Review status of a place revision *)

StatusArchived == -1
StatusCreated == 0

(* Roles, ordered Guest < User < Scout < Admin *)
RoleGuest == 0
RoleUser == 1
RoleScout == 2
RoleAdmin == 3
Roles == RoleGuest..RoleAdmin

TokenEmails == 1..MaxTokenUsers

---------------------------------------------------------------------------
(* Helpers *)

Min(S) == CHOOSE x \in S : \A y \in S : x <= y

Ok(d) == [db |-> d, res |-> "Ok"]
Err(d, e) == [db |-> d, res |-> e]

\* Mutant: every statement is committed on its own, whatever the closure returns
TransactionAutocommit(d, r) == r.db

\* connection.transaction(|| ...): commit on Ok, roll back on Err; a panic
\* drops the connection, which rolls the open transaction back as well.
Transaction(d, r) == IF r.res = "Ok" THEN r.db ELSE d

EmptyDb ==
    [ place      |-> {},       \* [uid, rev]
      place_rev  |-> {},       \* [id, place, rev, status, created_at]
      log        |-> <<>>,     \* [place_rev_id, status, created_at, notes]
      rev_tag    |-> {},       \* [place_rev_id, tag]
      tags       |-> {},       \* tag ids
      rating     |-> {},       \* [uid, place, value, created_at, archived_at]
      comment    |-> {},       \* [uid, rating, created_at, archived_at]
      users      |-> {},       \* [email, role]
      user_tokens|-> {},       \* [user, nonce, expires_at]
      organizations     |-> {},     \* organization ids
      org_tag_relations |-> <<>> ]  \* [org_id, tag_id], in the order they are loaded

---------------------------------------------------------------------------
(* PlaceGateway *)

\* resolve_place_id: the row id of the place with the given uid
PlaceExists(d, uid) == \E p \in d.place : p.uid = uid

\* From<DieselError> for RepoError: NotFound stays NotFound, every other
\* error is boxed in Other
RepoErrorFrom(err) == IF err = "NotFound" THEN "NotFound" ELSE "Other(" \o err \o ")"

\* UNIQUE (place_id, rev) of the place revision table
PlaceRevUnique(d, uid, rev) == ~ \E r \in d.place_rev : r.place = uid /\ r.rev = rev


\* The place table after the first statement of new_place_rev_from_entry
PlaceTableAfter(d, e) ==
    IF e.version = 0
    THEN \* insert_or_ignore_into(place)
         IF PlaceExists(d, e.uid) THEN d.place
         ELSE d.place \cup {[uid |-> e.uid, rev |-> 0]}
    ELSE \* update(place.filter(uid).filter(rev = version - 1)).set(rev = version)
         {IF p.uid = e.uid /\ p.rev = e.version - 1
          THEN [p EXCEPT !.rev = e.version] ELSE p : p \in d.place}

\* Number of rows changed by the UPDATE of new_place_rev_from_entry
PlaceUpdateCount(d, e) ==
    Cardinality({p \in d.place : p.uid = e.uid /\ p.rev = e.version - 1})

\* new_place_rev_from_entry: e = [uid, version, created_at, archived_at, tags]
new_place_rev_from_entry(d, e, dbg) ==
    LET d1 == [d EXCEPT !.place = PlaceTableAfter(d, e)]
        archived == e.archived_at # None
        row == [ place      |-> e.uid,
                 rev        |-> e.version,
                 status     |-> IF archived THEN StatusArchived ELSE StatusCreated,
                 created_at |-> IF archived THEN e.archived_at ELSE e.created_at ]
    IN  IF e.version > 0 /\ dbg /\ PlaceUpdateCount(d, e) # 1
        THEN [db |-> d1, res |-> "Panic", row |-> row]       \* debug_assert_eq!(1, _count)
        ELSE IF ~PlaceExists(d1, e.uid)
        THEN [db |-> d1, res |-> "NotFound", row |-> row]    \* resolve_place_id
        ELSE [db |-> d1, res |-> "Ok", row |-> row]

\* PlaceGateway::create_entry
create_entry(d, e, dbg) ==
    LET n == new_place_rev_from_entry(d, e, dbg)
        d1 == n.db
        id == Cardinality(d1.place_rev) + 1
        d2 == [d1 EXCEPT
                 !.place_rev = @ \cup {[ id |-> id, place |-> n.row.place, rev |-> n.row.rev,
                                         status |-> n.row.status,
                                         created_at |-> n.row.created_at ]},
                 !.log = Append(@, [ place_rev_id |-> id, status |-> n.row.status,
                                     created_at |-> n.row.created_at, notes |-> "created" ]),
                 !.rev_tag = @ \cup {[place_rev_id |-> id, tag |-> t] : t \in e.tags}]
    IN  IF n.res # "Ok" THEN Err(d1, n.res)
        ELSE IF n.row.status # StatusCreated THEN Err(d1, "Panic")   \* assert_eq!
        ELSE IF ~PlaceRevUnique(d1, e.uid, e.version) THEN Err(d1, RepoErrorFrom("DatabaseError"))
        ELSE Ok(d2)

\* PlaceGateway::update_entry
update_entry(d, e, dbg) == create_entry(d, e, dbg)

\* TagRepo::create_tag_if_it_does_not_exist: a unique violation is not an error
create_tag_if_it_does_not_exist(d, t) == Ok([d EXCEPT !.tags = @ \cup {t}])

RECURSIVE CreateTags(_, _)
CreateTags(d, ts) ==
    IF ts = {} THEN d
    ELSE LET t == CHOOSE x \in ts : TRUE
         IN  CreateTags(create_tag_if_it_does_not_exist(d, t).db, ts \ {t})

\* MapPoint::try_from_lat_lng_deg: is the latitude one of a position
try_from_lat_lng_deg(lat) == lat >= -90 /\ lat <= 90

\* Mutant: prepare_new_place_rev without the check of the position
prepare_new_place_rev_unchecked(uid, lat, tags, now) ==
    [res |-> "Ok",
     place |-> {[uid |-> uid, version |-> 0, created_at |-> now,
                 archived_at |-> None, tags |-> tags]}]

\* usecases::prepare_new_place_rev: the position is validated, rev is initial
prepare_new_place_rev(uid, lat, tags, now) ==
    IF ~try_from_lat_lng_deg(lat)
    THEN [res |-> "InvalidPosition", place |-> {}]
    ELSE [res |-> "Ok",
          place |-> {[uid |-> uid, version |-> 0, created_at |-> now,
                      archived_at |-> None, tags |-> tags]}]

\* usecases::store_new_place_rev: create the tags, then the revision
store_new_place_rev(d, e, dbg) == create_entry(CreateTags(d, e.tags), e, dbg)

\* The tags of a revision as load_entry reads them
TagsOfRev(d, rev_id) == {x.tag : x \in {y \in d.rev_tag : y.place_rev_id = rev_id}}

\* The revisions joined with their place on (place_id, rev): the current ones
CurrentRevs(d) ==
    {r \in d.place_rev : \E p \in d.place : p.uid = r.place /\ p.rev = r.rev}

\* The loop of archive_entries over the loaded revision ids, in id order
RECURSIVE ArchiveRevs(_, _, _)
ArchiveRevs(d, ids, at) ==
    IF ids = {} THEN Ok(d)
    ELSE LET id == Min(ids)
             hit == {r \in d.place_rev : r.id = id /\ r.status # StatusArchived}
         IN  IF Cardinality(hit) > 1 THEN Err(d, "TooManyFound")
             ELSE IF hit = {} THEN Err(d, "NotFound")
             ELSE ArchiveRevs(
                    [d EXCEPT
                       !.place_rev = {IF r \in hit THEN [r EXCEPT !.status = StatusArchived]
                                      ELSE r : r \in @},
                       !.log = Append(@, [ place_rev_id |-> id, status |-> StatusArchived,
                                           created_at |-> at, notes |-> "archived" ])],
                    ids \ {id}, at)


\* Mutant: archive_entries passes over the revisions that are archived already
archive_entries_skip_archived(d, uids, at) ==
    LET rev_ids == {r.id : r \in {c \in CurrentRevs(d) :
                                    c.place \in uids /\ c.status # StatusArchived}}
        a == ArchiveRevs(d, rev_ids, at)
    IN  [db |-> a.db, res |-> a.res, count |-> Cardinality(rev_ids)]

\* Mutant: archive_entries that writes no status-log entry
archive_entries_without_log(d, uids, at) ==
    LET rev_ids == {r.id : r \in {c \in CurrentRevs(d) : c.place \in uids}}
        a == ArchiveRevs(d, rev_ids, at)
    IN  [db |-> [a.db EXCEPT !.log = d.log], res |-> a.res, count |-> Cardinality(rev_ids)]

\* PlaceGateway::archive_entries; count is the number of loaded revisions
archive_entries(d, uids, at) ==
    LET rev_ids == {r.id : r \in {c \in CurrentRevs(d) : c.place \in uids}}
        a == ArchiveRevs(d, rev_ids, at)
    IN  [db |-> a.db, res |-> a.res, count |-> Cardinality(rev_ids)]

\* PlaceGateway::get_entries (no uids: all entries)
get_entries(d, uids) ==
    {r \in CurrentRevs(d) : r.status >= StatusCreated /\ (uids = {} \/ r.place \in uids)}

\* PlaceGateway::get_entry
get_entry(d, uid) == get_entries(d, {uid})

EntryExists(d, uid) == get_entry(d, uid) # {}

\* PlaceGateway::get_entry as a result: entries.into_iter().next().ok_or(NotFound)
get_place(d, uid) ==
    IF get_entries(d, {uid}) = {} THEN [res |-> "NotFound", place |-> {}]
    ELSE [res |-> "Ok", place |-> get_entries(d, {uid})]

\* ORDER BY log.created_at DESC, log.id: the given log ids in that order
RECURSIVE LogOrder(_, _)
LogOrder(d, ids) ==
    IF ids = {} THEN <<>>
    ELSE LET first == CHOOSE i \in ids : \A j \in ids :
                        \/ d.log[i].created_at > d.log[j].created_at
                        \/ d.log[i].created_at = d.log[j].created_at /\ i <= j
         IN  <<first>> \o LogOrder(d, ids \ {first})

\* PlaceGateway::recently_changed_entries: the status log joined with the
\* revisions joined with their place on (place_id, rev); status and
\* created_at are those of the log entry; limit None is no limit
recently_changed_entries(d, since, until, offset, limit) ==
    LET ids == {i \in 1..Len(d.log) :
                  /\ \E r \in CurrentRevs(d) : r.id = d.log[i].place_rev_id
                  /\ since = None \/ d.log[i].created_at >= since
                  /\ until = None \/ d.log[i].created_at < until}
        order == LogOrder(d, ids)
        Row(i) == LET r == CHOOSE c \in CurrentRevs(d) : c.id = d.log[i].place_rev_id
                  IN  [id |-> r.id, place |-> r.place, rev |-> r.rev,
                       status |-> d.log[i].status, created_at |-> d.log[i].created_at]
        rows == [k \in 1..Len(order) |-> Row(order[k])]
        rest == SubSeq(rows, offset + 1, Len(rows))
    IN  IF limit = None \/ limit >= Len(rest) THEN rest ELSE SubSeq(rest, 1, limit)

\* load_entry: the Entry made of a loaded revision row; the status of the row
\* is dropped, archived_at is the time of the first log entry of the revision
\* with status archived, if there is one
load_entry(d, place_rev) ==
    LET archived == {i \in 1..Len(d.log) : /\ d.log[i].place_rev_id = place_rev.id
                                           /\ d.log[i].status = StatusArchived}
    IN  [ uid         |-> place_rev.place,
          version     |-> place_rev.rev,
          created_at  |-> place_rev.created_at,
          archived_at |-> IF archived = {} THEN None ELSE d.log[Min(archived)].created_at,
          tags        |-> TagsOfRev(d, place_rev.id) ]

\* PlaceGateway::recently_changed_entries as returned: every row of the
\* query through load_entry
recently_changed(d, since, until, offset, limit) ==
    LET rows == recently_changed_entries(d, since, until, offset, limit)
    IN  [k \in 1..Len(rows) |-> load_entry(d, rows[k])]

\* ORDER BY count DESC, tag: the given rows [tag, count] in that order
RECURSIVE TagOrder(_)
TagOrder(rows) ==
    IF rows = {} THEN <<>>
    ELSE LET first == CHOOSE x \in rows : \A y \in rows :
                        \/ x.count > y.count
                        \/ x.count = y.count /\ x.tag <= y.tag
         IN  <<first>> \o TagOrder(rows \ {first})

\* PlaceGateway::most_popular_entry_tags: the tags of the current revisions
\* WHERE status > 0, grouped and counted; None is no bound; an OFFSET without
\* a LIMIT is not a statement SQLite accepts
most_popular_entry_tags(d, min_count, max_count, offset, limit) ==
    LET rev_ids == {r.id : r \in {c \in CurrentRevs(d) : c.status > 0}}
        used == {x \in d.rev_tag : x.place_rev_id \in rev_ids}
        Count(t) == Cardinality({x \in used : x.tag = t})
        groups == {[tag |-> t, count |-> Count(t)] : t \in {x.tag : x \in used}}
        having == {g \in groups : /\ min_count = None \/ g.count >= min_count
                                  /\ max_count = None \/ g.count <= max_count}
        rows == TagOrder(having)
        rest == SubSeq(rows, offset + 1, Len(rows))
    IN  IF offset > 0 /\ limit = None
        THEN [res |-> RepoErrorFrom("DatabaseError"), tags |-> <<>>]
        ELSE [res |-> "Ok",
              tags |-> IF limit = None \/ limit >= Len(rest) THEN rest
                       ELSE SubSeq(rest, 1, limit)]

\* PlaceGateway::count_entries: the revisions, current or not, WHERE
\* status >= created
count_entries(d) == Cardinality({r \in d.place_rev : r.status >= StatusCreated})

\* PlaceGateway::all_entries
all_entries(d) == get_entries(d, {})

---------------------------------------------------------------------------
(* RatingRepository / CommentRepository *)

\* RatingRepository::create_rating
create_rating(d, r) ==
    IF ~PlaceExists(d, r.place) THEN Err(d, "NotFound")
    ELSE Ok([d EXCEPT !.rating = @ \cup {r}])

\* RatingRepository::load_ratings
load_ratings(d, uids) == {r \in d.rating : r.uid \in uids /\ r.archived_at = None}

\* RatingRepository::load_ratings_of_entry
load_ratings_of_entry(d, place_uid) ==
    {r \in d.rating : r.place = place_uid /\ r.archived_at = None}

\* RatingRepository::load_entry_ids_of_ratings
load_entry_ids_of_ratings(d, uids) == {r.place : r \in {x \in d.rating : x.uid \in uids}}

\* Mutant: the UPDATE without the filter archived_at IS NULL
ArchiveRowsOverwriting(rows, sel, at) ==
    {IF r \in sel THEN [r EXCEPT !.archived_at = at] ELSE r : r \in rows}

\* Rows hit by an UPDATE ... SET archived_at = at WHERE sel AND archived_at IS NULL
ArchiveRows(rows, sel, at) ==
    {IF r \in sel /\ r.archived_at = None THEN [r EXCEPT !.archived_at = at] ELSE r : r \in rows}

LiveCount(sel) == Cardinality({r \in sel : r.archived_at = None})


\* Mutant: archive_ratings without the comparison of the row count
archive_ratings_unchecked(d, uids, at) ==
    LET sel == {r \in d.rating : r.uid \in uids}
    IN  Ok([d EXCEPT !.rating = ArchiveRows(@, sel, at)])

\* RatingRepository::archive_ratings
archive_ratings(d, uids, at) ==
    LET sel == {r \in d.rating : r.uid \in uids}
        count == LiveCount(sel)
        d1 == [d EXCEPT !.rating = ArchiveRows(@, sel, at)]
    IN  IF count < Cardinality(uids) THEN Err(d1, "NotFound")
        ELSE IF count > Cardinality(uids) THEN Err(d1, "TooManyFound")
        ELSE Ok(d1)

\* RatingRepository::archive_ratings_of_entries
archive_ratings_of_entries(d, place_uids, at) ==
    LET places == {p.uid : p \in {x \in d.place : x.uid \in place_uids}}
        sel == {r \in d.rating : r.place \in places}
    IN  Ok([d EXCEPT !.rating = ArchiveRows(@, sel, at)])

\* CommentRepository::create_comment
create_comment(d, c) ==
    IF ~ \E r \in d.rating : r.uid = c.rating THEN Err(d, "NotFound")
    ELSE Ok([d EXCEPT !.comment = @ \cup {c}])

\* CommentRepository::load_comments
load_comments(d, uids) == {c \in d.comment : c.uid \in uids /\ c.archived_at = None}

\* CommentRepository::load_comments_of_rating
load_comments_of_rating(d, rating_uid) ==
    {c \in d.comment : c.rating = rating_uid /\ c.archived_at = None}

\* CommentRepository::archive_comments
archive_comments(d, uids, at) ==
    LET sel == {c \in d.comment : c.uid \in uids}
        count == LiveCount(sel)
        d1 == [d EXCEPT !.comment = ArchiveRows(@, sel, at)]
    IN  IF count < Cardinality(uids) THEN Err(d1, "NotFound")
        ELSE IF count > Cardinality(uids) THEN Err(d1, "TooManyFound")
        ELSE Ok(d1)

\* CommentRepository::archive_comments_of_ratings
archive_comments_of_ratings(d, rating_uids, at) ==
    LET ratings == {r.uid : r \in {x \in d.rating : x.uid \in rating_uids}}
        sel == {c \in d.comment : c.rating \in ratings}
    IN  Ok([d EXCEPT !.comment = ArchiveRows(@, sel, at)])


\* Mutant: archive_comments_of_entries archives nothing
archive_comments_of_entries_none(d, place_uids, at) == Ok(d)

\* CommentRepository::archive_comments_of_entries
archive_comments_of_entries(d, place_uids, at) ==
    LET places == {p.uid : p \in {x \in d.place : x.uid \in place_uids}}
        ratings == {r.uid : r \in {x \in d.rating : x.place \in places}}
        sel == {c \in d.comment : c.rating \in ratings}
    IN  Ok([d EXCEPT !.comment = ArchiveRows(@, sel, at)])

RatingExists(d, uid) == load_ratings(d, {uid}) # {}

---------------------------------------------------------------------------
(* Use cases composed by the flows *)

\* usecases::archive_places: cascade to the comments and the ratings of the
\* places, then archive the current revisions
usecase_archive_places(d, ids, at) ==
    LET c == archive_comments_of_entries(d, ids, at)
        r == archive_ratings_of_entries(c.db, ids, at)
        a == archive_entries(r.db, ids, at)
    IN  Err(a.db, a.res)

\* The role of an account (Guest when there is no such user)
RoleOf(d, email) ==
    IF \E u \in d.users : u.email = email
    THEN (CHOOSE u \in d.users : u.email = email).role
    ELSE RoleGuest

\* Mutant: usecases::archive_ratings without the authorization
usecase_archive_ratings_unauthorized(d, account_email, ids, at) ==
    LET c == archive_comments_of_ratings(d, ids, at)
    IN  archive_ratings(c.db, ids, at)

\* usecases::archive_ratings: authorize, archive the comments of the ratings,
\* then the ratings
usecase_archive_ratings(d, account_email, ids, at) ==
    LET c == archive_comments_of_ratings(d, ids, at)
        r == archive_ratings(c.db, ids, at)
    IN  IF RoleOf(d, account_email) < RoleScout THEN Err(d, "Forbidden")
        ELSE r

---------------------------------------------------------------------------
(* UserTokenRepo *)

UserExists(d, email) == \E u \in d.users : u.email = email

\* INSERT INTO user_tokens under the constraint of one token per user: a
\* conflicting insert replaces the stored row or is ignored (0 rows)
InsertUserToken(rows, row, conflict) ==
    IF \E x \in rows : x.user = row.user
    THEN IF conflict = "replace"
         THEN [rows |-> {x \in rows : x.user # row.user} \cup {row}, count |-> 1]
         ELSE [rows |-> rows, count |-> 0]
    ELSE [rows |-> rows \cup {row}, count |-> 1]

\* Mutant: replace_user_token without the update that follows an insert of 0 rows
replace_user_token_insert_only(d, token, conflict) ==
    LET ins == InsertUserToken(d.user_tokens, token, conflict)
    IN  IF ~UserExists(d, token.user) THEN Err(d, "NotFound")
        ELSE Ok([d EXCEPT !.user_tokens = ins.rows])

\* UserTokenRepo::replace_user_token: token = [user, nonce, expires_at]
replace_user_token(d, token, conflict) ==
    LET ins == InsertUserToken(d.user_tokens, token, conflict)
        upd == {IF x.user = token.user THEN token ELSE x : x \in ins.rows}
    IN  IF ~UserExists(d, token.user) THEN Err(d, "NotFound")
        ELSE IF ins.count = 0
        THEN Ok([d EXCEPT !.user_tokens = upd])
        ELSE Ok([d EXCEPT !.user_tokens = ins.rows])

\* UserTokenRepo::get_user_token_by_email: the tokens the query may return first
get_user_token_by_email(d, email) ==
    {x \in d.user_tokens : x.user = email /\ UserExists(d, email)}

\* The DELETE of consume_user_token
DeleteTarget(d, email, nonce) ==
    {x \in d.user_tokens : x.nonce = nonce /\ x.user = email /\ UserExists(d, email)}

\* UserTokenRepo::discard_expired_user_tokens
discard_expired_user_tokens(d, expired_before) ==
    Ok([d EXCEPT !.user_tokens = {x \in @ : ~(x.expires_at < expired_before)}])

---------------------------------------------------------------------------
(* TantivyPlaceIndex: documents are [id, tags, total] *)

Sum(S) ==
    LET RECURSIVE Go(_)
        Go(T) == IF T = {} THEN 0 ELSE LET x == CHOOSE y \in T : TRUE IN x.value + Go(T \ {x})
    IN  Go(S)

\* AvgRatings::total of the ratings of a place, in tenths
AvgTotal(ratings) ==
    IF ratings = {} THEN 0 ELSE (10 * Sum(ratings)) \div Cardinality(ratings)

\* PlaceIndexer::remove_place_by_id: delete_term(id)
remove_place_by_id(docs, id) == {x \in docs : x.id # id}

\* Mutant: add_document without the delete_term before it
add_or_update_place_keep_old(docs, doc) == docs \cup {doc}

\* PlaceIndexer::add_or_update_place: delete_term(id), then add_document
add_or_update_place(docs, doc) == remove_place_by_id(docs, doc.id) \cup {doc}


\* Mutant: flush commits the writer but never reloads the reader
flush_without_reload(writer, reader, ok) == reader

\* Mutant: the reader picks up the writes also when the flush fails
flush_reload_on_failure(writer, reader, ok) == writer

\* PlaceIndexer::flush: commit the writer and reload the reader; on failure
\* the searcher keeps its view
flush(writer, reader, ok) == IF ok THEN writer ELSE reader

\* TopDocs::with_limit(limit).order_by_u64_field(total_rating)
RECURSIVE TopDocs(_, _)
TopDocs(docs, limit) ==
    IF docs = {} \/ limit = 0 THEN <<>>
    ELSE LET best == CHOOSE x \in docs : \A y \in docs : y.total <= x.total
         IN  <<best>> \o TopDocs(docs \ {best}, limit - 1)

\* PlaceIndex::query_places for a query that holds ids only
query_places(reader, ids, limit) == TopDocs({x \in reader : x.id \in ids}, limit)

\* The document of a place as handed to the indexer
Doc(uid, tags, ratings) == [id |-> uid, tags |-> tags, total |-> AvgTotal(ratings)]

---------------------------------------------------------------------------
(* Initial state *)

InitialUsers == {[email |-> r + 1, role |-> r] : r \in Roles}

NoCall == [op |-> "none", res |-> "none"]

IdleTask ==
    [ flow |-> "none", pc |-> "idle", res |-> "none",
      ids |-> {},          \* the uids handed to the flow
      uid |-> None,        \* create_place: the uid of the new place
      tags |-> {},         \* create_place: the tags of the new place
      lat |-> 0,           \* create_place: latitude in degrees
      account |-> None,    \* archive_ratings / consume_user_token: the e-mail
      nonce |-> None,      \* consume_user_token: the nonce
      token |-> {},        \* consume_user_token: the token read by the first query
      todo |-> {},         \* ids still to be (un)indexed
      loaded |-> {},       \* post_archive_ratings: the document to index
      committed |-> FALSE, \* the store transaction of the flow has committed
      cause |-> "none",    \* the error that rolled the transaction back
      flushed |-> FALSE,   \* the flush of the flow succeeded
      alone |-> TRUE,      \* no other flow ran while this one did
      had |-> FALSE,       \* consume_user_token: the token was stored at the start
      clean |-> TRUE ]     \* consume_user_token: no token was issued or expired since

InitCommon ==
    /\ db = [EmptyDb EXCEPT !.users = InitialUsers]
    /\ clock = 1
    /\ last = NoCall
    /\ task = [t \in Tasks |-> IdleTask]
    /\ storeLock = None
    /\ idxWriter = {}
    /\ idxReader = {}
    /\ notified = {}
    /\ indexMutex = [holder |-> None, poisoned |-> FALSE]

\* Timestamp::now() advances
Tick ==
    /\ clock < MaxTime
    /\ clock' = clock + 1
    /\ last' = NoCall
    /\ UNCHANGED <<db, debug_assertions, task, storeLock, idxWriter, idxReader,
                   notified, on_conflict, budget, indexMutex>>

---------------------------------------------------------------------------
(* The place store called directly, each call in a transaction of its own *)

CreateOrUpdatePlace ==
    \E uid \in PlaceUids, v \in Versions, arch \in {None, clock}, tags \in SUBSET TagIds :
        LET e == [uid |-> uid, version |-> v, created_at |-> clock,
                  archived_at |-> arch, tags |-> tags]
            r == IF v = 0 THEN create_entry(db, e, debug_assertions)
                 ELSE update_entry(db, e, debug_assertions)
        IN  /\ Len(db.log) < MaxLog
            /\ db' = Transaction(db, r)
            /\ last' = [op |-> "create_or_update_place", res |-> r.res, uid |-> uid,
                        version |-> v, archived_at |-> arch]
            /\ UNCHANGED <<debug_assertions, clock, task, storeLock, idxWriter, idxReader,
                           notified, on_conflict, budget, indexMutex>>

ArchivePlacesCall ==
    \E ids \in SUBSET PlaceUids :
        LET r == archive_entries(db, ids, clock)
        IN  /\ ids # {}
            /\ Len(db.log) < MaxLog
            /\ db' = Transaction(db, r)
            /\ last' = [op |-> "archive_places", res |-> r.res, ids |-> ids,
                        count |-> r.count]
            /\ UNCHANGED <<debug_assertions, clock, task, storeLock, idxWriter, idxReader,
                           notified, on_conflict, budget, indexMutex>>

InitStore ==
    /\ InitCommon
    /\ budget = 0
    /\ debug_assertions \in BOOLEAN
    /\ on_conflict = "replace"

NextStore == CreateOrUpdatePlace \/ ArchivePlacesCall \/ Tick

SpecStore == InitStore /\ [][NextStore]_vars

---------------------------------------------------------------------------
(* The flows: each runs in a task; a task takes the exclusive store handle,
   runs its transaction, releases the handle, then updates the index,
   flushes and notifies *)

Lats == {48, 91}
\* The accounts that call archive_ratings: a user and a scout
FlowAccounts == {RoleUser + 1, RoleScout + 1}
RatingValues == {-1, 2}

IndexPcs == {"index", "unindex", "load_uids", "load_entry", "index_entry"}
PostPcs == IndexPcs \cup {"flush", "notify"}

\* Mutant: the flow carries on with the index whatever its transaction did
AfterExecIgnoringFailure(flow, res) ==
    CASE flow = "create_place" -> "index"
      [] flow = "archive_places" -> "unindex"
      [] OTHER -> "load_uids"

\* exec_...(...)?; post_...(...): where the flow goes after its transaction
AfterExec(flow, res) ==
    IF res # "Ok" THEN "done"
    ELSE CASE flow = "create_place" -> "index"
           [] flow = "archive_places" -> "unindex"
           [] OTHER -> "load_uids"

\* create_place: what the transaction block returns when the closure failed;
\* the error of prepare_new_place is kept in prepare_err, the error of
\* store_new_place is logged and the closure returns RollbackTransaction
RollbackError(prepare_err) ==
    IF prepare_err # "none" THEN prepare_err ELSE RepoErrorFrom("RollbackTransaction")

\* Task t starts a flow: it is alone when no other flow is running, and the
\* flows that are running are no longer alone
Joined(tk, t, new) ==
    [u \in Tasks |->
        IF u = t THEN [new EXCEPT !.alone = \A w \in Tasks \ {t} : tk[w].pc = "idle"]
        ELSE IF tk[u].pc = "idle" THEN tk[u]
        ELSE [tk[u] EXCEPT !.alone = FALSE]]

\* A new flow runs in the first idle task
FreeTask(t) == task[t].pc = "idle" /\ \A u \in Tasks : u < t => task[u].pc # "idle"

FreshPlaceUids == PlaceUids \ {p.uid : p \in db.place}

\* connections.exclusive() of create_place
StartCreatePlace(t) ==
    \E tags \in SUBSET TagIds, lat \in Lats :
        /\ FreeTask(t)
        /\ storeLock = None
        /\ budget > 0
        /\ budget' = budget - 1
        /\ FreshPlaceUids # {}
        /\ Len(db.log) < MaxLog
        /\ storeLock' = t
        /\ task' = Joined(task, t, [IdleTask EXCEPT !.flow = "create_place", !.pc = "exec",
                                                    !.tags = tags, !.lat = lat])
        /\ UNCHANGED <<db, debug_assertions, clock, last, idxWriter, idxReader, notified,
                       on_conflict, indexMutex>>

\* The transaction of create_place; the handle is dropped at the end of the block
ExecCreatePlace(t) ==
    /\ task[t].flow = "create_place"
    /\ task[t].pc = "exec"
    /\ LET uid == Min(FreshPlaceUids)
           prep == prepare_new_place_rev(uid, task[t].lat, task[t].tags, clock)
           r == IF prep.res # "Ok" THEN Err(db, prep.res)
                ELSE store_new_place_rev(db, CHOOSE e \in prep.place : TRUE,
                                         debug_assertions)
       IN  /\ db' = Transaction(db, r)
           /\ task' = [task EXCEPT ![t].res = IF r.res = "Ok" THEN "Ok"
                                             ELSE IF prep.res # "Ok"
                                             THEN RollbackError(prep.res)
                                             ELSE RollbackError("none"),
                                   ![t].cause = IF r.res = "Ok" THEN "none" ELSE r.res,
                                   ![t].uid = IF r.res = "Ok" THEN uid ELSE None,
                                   ![t].committed = (r.res = "Ok"),
                                   ![t].pc = AfterExec("create_place", r.res)]
    /\ storeLock' = None
    /\ UNCHANGED <<debug_assertions, clock, last, idxWriter, idxReader, notified,
                   on_conflict, budget, indexMutex>>

\* The transaction of create_place when a statement of store_new_place fails
\* with a database error: nothing is stored
ExecCreatePlaceStoreFails(t) ==
    /\ task[t].flow = "create_place"
    /\ task[t].pc = "exec"
    /\ LET uid == Min(FreshPlaceUids)
           prep == prepare_new_place_rev(uid, task[t].lat, task[t].tags, clock)
           r == Err(db, RepoErrorFrom("DatabaseError"))
       IN  /\ prep.res = "Ok"
           /\ db' = Transaction(db, r)
           /\ task' = [task EXCEPT ![t].res = RollbackError("none"),
                                   ![t].cause = r.res,
                                   ![t].pc = AfterExec("create_place", r.res)]
    /\ storeLock' = None
    /\ UNCHANGED <<debug_assertions, clock, last, idxWriter, idxReader, notified,
                   on_conflict, budget, indexMutex>>

\* usecases::reindex_place(indexer, &place, Created, &ratings), no ratings so far
IndexPlace(t) ==
    /\ task[t].flow = "create_place"
    /\ task[t].pc = "index"
    /\ idxWriter' = add_or_update_place(idxWriter, Doc(task[t].uid, task[t].tags, {}))
    /\ task' = [task EXCEPT ![t].pc = "flush"]
    /\ UNCHANGED <<db, debug_assertions, clock, last, storeLock, idxReader, notified,
                   on_conflict, budget, indexMutex>>

\* Mutant: a failure after the transaction becomes the result of the flow
PostResultPropagating(res, ok) == IF ok THEN res ELSE "Other(IndexError)"

\* if let Err(err) = ... { error!(...) }: a failure after the transaction is
\* logged and the result of the flow stays what the transaction made it
PostResult(res, ok) == res

\* indexer.flush(): an error is logged; create_place goes on to notify
FlushIndex(t) ==
    \E ok \in BOOLEAN :
        /\ task[t].pc = "flush"
        /\ idxReader' = flush(idxWriter, idxReader, ok)
        /\ task' = [task EXCEPT ![t].flushed = ok,
                                ![t].res = PostResult(task[t].res, ok),
                                ![t].pc = IF task[t].flow = "create_place"
                                          THEN "notify" ELSE "done"]
        /\ UNCHANGED <<db, debug_assertions, clock, last, storeLock, idxWriter, notified,
                       on_conflict, budget, indexMutex>>

\* notify_place_added: the subscribers are loaded and the gateway is called
\* for the new place; the flow returns Ok(place)
NotifyPlaceAdded(t) ==
    /\ task[t].pc = "notify"
    /\ notified' = notified \cup {task[t].uid}
    /\ task' = [task EXCEPT ![t].res = PostResult(task[t].res, TRUE),
                            ![t].pc = "done"]
    /\ UNCHANGED <<db, debug_assertions, clock, last, storeLock, idxWriter, idxReader,
                   on_conflict, budget, indexMutex>>

\* notify_place_added when connections.shared() or the query for the
\* subscribers fails: the gateway is not called, the error is logged and the
\* flow returns Ok(place)
NotifyPlaceAddedFails(t) ==
    /\ task[t].pc = "notify"
    /\ task' = [task EXCEPT ![t].res = PostResult(task[t].res, FALSE),
                            ![t].pc = "done"]
    /\ UNCHANGED <<db, debug_assertions, clock, last, storeLock, idxWriter, idxReader,
                   notified, on_conflict, budget, indexMutex>>

\* connections.exclusive() of exec_archive_places
StartArchivePlaces(t) ==
    \E ids \in SUBSET PlaceUids :
        /\ ids # {}
        /\ FreeTask(t)
        /\ storeLock = None
        /\ budget > 0
        /\ budget' = budget - 1
        /\ Len(db.log) < MaxLog
        /\ storeLock' = t
        /\ task' = Joined(task, t, [IdleTask EXCEPT !.flow = "archive_places",
                                                    !.pc = "exec", !.ids = ids])
        /\ UNCHANGED <<db, debug_assertions, clock, last, idxWriter, idxReader, notified,
                       on_conflict, indexMutex>>

\* The transaction of exec_archive_places
ExecArchivePlaces(t) ==
    /\ task[t].flow = "archive_places"
    /\ task[t].pc = "exec"
    /\ LET r == usecase_archive_places(db, task[t].ids, clock)
       IN  /\ db' = Transaction(db, r)
           /\ task' = [task EXCEPT ![t].res = r.res,
                                   ![t].cause = IF r.res = "Ok" THEN "none" ELSE r.res,
                                   ![t].committed = (r.res = "Ok"),
                                   ![t].todo = IF r.res = "Ok" THEN task[t].ids ELSE {},
                                   ![t].pc = AfterExec("archive_places", r.res)]
    /\ storeLock' = None
    /\ UNCHANGED <<debug_assertions, clock, last, idxWriter, idxReader, notified,
                   on_conflict, budget, indexMutex>>

\* post_archive_places: usecases::unindex_entry(indexer, id) for each id
UnindexEntry(t) ==
    \E id \in task[t].todo :
        /\ task[t].pc = "unindex"
        /\ idxWriter' = remove_place_by_id(idxWriter, id)
        /\ task' = [task EXCEPT ![t].todo = @ \ {id},
                                ![t].pc = IF task[t].todo = {id} THEN "flush" ELSE "unindex"]
        /\ UNCHANGED <<db, debug_assertions, clock, last, storeLock, idxReader, notified,
                       on_conflict, budget, indexMutex>>

\* connections.exclusive() of exec_archive_ratings
StartArchiveRatings(t) ==
    \E account \in FlowAccounts, ids \in SUBSET RatingUids :
        /\ ids # {}
        /\ FreeTask(t)
        /\ storeLock = None
        /\ budget > 0
        /\ budget' = budget - 1
        /\ storeLock' = t
        /\ task' = Joined(task, t, [IdleTask EXCEPT !.flow = "archive_ratings",
                                                    !.pc = "exec", !.ids = ids,
                                                    !.account = account])
        /\ UNCHANGED <<db, debug_assertions, clock, last, idxWriter, idxReader, notified,
                       on_conflict, indexMutex>>

\* The transaction of exec_archive_ratings
ExecArchiveRatings(t) ==
    /\ task[t].flow = "archive_ratings"
    /\ task[t].pc = "exec"
    /\ LET r == usecase_archive_ratings(db, task[t].account, task[t].ids, clock)
       IN  /\ db' = Transaction(db, r)
           /\ task' = [task EXCEPT ![t].res = r.res,
                                   ![t].cause = IF r.res = "Ok" THEN "none" ELSE r.res,
                                   ![t].committed = (r.res = "Ok"),
                                   ![t].pc = AfterExec("archive_ratings", r.res)]
    /\ storeLock' = None
    /\ UNCHANGED <<debug_assertions, clock, last, idxWriter, idxReader, notified,
                   on_conflict, budget, indexMutex>>

\* post_archive_ratings: connection.load_place_uids_of_ratings(ids)
LoadPlaceUids(t) ==
    /\ task[t].pc = "load_uids"
    /\ LET uids == load_entry_ids_of_ratings(db, task[t].ids)
       IN  task' = [task EXCEPT ![t].todo = uids,
                                ![t].pc = IF uids = {} THEN "flush" ELSE "load_entry"]
    /\ UNCHANGED <<db, debug_assertions, clock, last, storeLock, idxWriter, idxReader,
                   notified, on_conflict, budget, indexMutex>>

\* post_archive_ratings: get_place and load_ratings_of_entry of the next place;
\* a place that cannot be loaded is skipped
LoadEntry(t) ==
    \E uid \in task[t].todo :
        /\ task[t].pc = "load_entry"
        /\ IF EntryExists(db, uid)
           THEN LET rev == CHOOSE r \in get_entry(db, uid) : TRUE
                IN  task' = [task EXCEPT
                               ![t].uid = uid,
                               ![t].loaded = {Doc(uid, TagsOfRev(db, rev.id),
                                                  load_ratings_of_entry(db, uid))},
                               ![t].pc = "index_entry"]
           ELSE task' = [task EXCEPT ![t].todo = @ \ {uid},
                                     ![t].pc = IF task[t].todo = {uid} THEN "flush"
                                               ELSE "load_entry"]
        /\ UNCHANGED <<db, debug_assertions, clock, last, storeLock, idxWriter, idxReader,
                       notified, on_conflict, budget, indexMutex>>

\* post_archive_ratings: usecases::index_entry(indexer, &entry, &ratings)
IndexEntry(t) ==
    /\ task[t].pc = "index_entry"
    /\ \E doc \in task[t].loaded : idxWriter' = add_or_update_place(idxWriter, doc)
    /\ task' = [task EXCEPT ![t].todo = @ \ {task[t].uid},
                            ![t].loaded = {},
                            ![t].pc = IF task[t].todo = {task[t].uid} THEN "flush"
                                      ELSE "load_entry"]
    /\ UNCHANGED <<db, debug_assertions, clock, last, storeLock, idxReader, notified,
                   on_conflict, budget, indexMutex>>

\* The flow has returned
FinishFlow(t) ==
    /\ task[t].flow \in {"create_place", "archive_places", "archive_ratings"}
    /\ task[t].pc = "done"
    /\ task' = [task EXCEPT ![t] = IdleTask]
    /\ UNCHANGED <<db, debug_assertions, clock, last, storeLock, idxWriter, idxReader,
                   notified, on_conflict, budget, indexMutex>>

\* RatingRepository::create_rating in a transaction on the exclusive handle
CreateRating ==
    \E place \in PlaceUids, value \in RatingValues :
        LET fresh == RatingUids \ {r.uid : r \in db.rating}
            r == create_rating(db, [uid |-> Min(fresh), place |-> place, value |-> value,
                                    archived_at |-> None])
        IN  /\ fresh # {}
            /\ storeLock = None
            /\ db' = Transaction(db, r)
            /\ UNCHANGED <<debug_assertions, clock, last, task, storeLock, idxWriter,
                           idxReader, notified, on_conflict, budget, indexMutex>>

\* CommentRepository::create_comment in a transaction on the exclusive handle
CreateComment ==
    \E rating \in RatingUids :
        LET fresh == CommentUids \ {c.uid : c \in db.comment}
            r == create_comment(db, [uid |-> Min(fresh), rating |-> rating,
                                     created_at |-> clock, archived_at |-> None])
        IN  /\ fresh # {}
            /\ storeLock = None
            /\ db' = Transaction(db, r)
            /\ UNCHANGED <<debug_assertions, clock, last, task, storeLock, idxWriter,
                           idxReader, notified, on_conflict, budget, indexMutex>>

InitFlow ==
    /\ InitCommon
    /\ budget = MaxFlows
    /\ debug_assertions \in BOOLEAN
    /\ on_conflict = "replace"

NextFlow ==
    \/ CreateRating
    \/ \E t \in Tasks :
        \/ StartCreatePlace(t) \/ ExecCreatePlace(t) \/ IndexPlace(t)
        \/ NotifyPlaceAdded(t)
        \/ StartArchivePlaces(t) \/ ExecArchivePlaces(t) \/ UnindexEntry(t)
        \/ StartArchiveRatings(t) \/ ExecArchiveRatings(t) \/ LoadPlaceUids(t)
        \/ LoadEntry(t) \/ IndexEntry(t)
        \/ FlushIndex(t) \/ FinishFlow(t)

SpecFlow == InitFlow /\ [][NextFlow]_vars

\* The place flows alone, run concurrently
InitPlaces ==
    /\ InitCommon
    /\ budget = MaxPlaceFlows
    /\ debug_assertions \in BOOLEAN
    /\ on_conflict = "replace"

NextPlaces ==
    \E t \in Tasks :
        \/ StartCreatePlace(t) \/ ExecCreatePlace(t) \/ IndexPlace(t)
        \/ NotifyPlaceAdded(t)
        \/ StartArchivePlaces(t) \/ ExecArchivePlaces(t) \/ UnindexEntry(t)
        \/ FlushIndex(t) \/ FinishFlow(t)

SpecPlaces == InitPlaces /\ [][NextPlaces]_vars

\* The flows called one after the other by a single client, with ratings,
\* comments and a clock that advances
InitSerial ==
    /\ InitCommon
    /\ budget = MaxSerialFlows
    /\ debug_assertions \in BOOLEAN
    /\ on_conflict = "replace"

NextSerial ==
    \/ CreateRating
    \/ CreateComment
    \/ Tick
    \/ StartCreatePlace(1) \/ ExecCreatePlace(1) \/ IndexPlace(1) \/ NotifyPlaceAdded(1)
    \/ StartArchivePlaces(1) \/ ExecArchivePlaces(1) \/ UnindexEntry(1)
    \/ StartArchiveRatings(1) \/ ExecArchiveRatings(1) \/ LoadPlaceUids(1)
    \/ LoadEntry(1) \/ IndexEntry(1)
    \/ FlushIndex(1) \/ FinishFlow(1)

SpecSerial == InitSerial /\ [][NextSerial]_vars

\* The flows called one after the other while the database may fail in the
\* store step of create_place and in the queries of the notification
InitPost ==
    /\ InitCommon
    /\ budget = MaxPostFlows
    /\ debug_assertions \in BOOLEAN
    /\ on_conflict = "replace"

NextPost ==
    \/ CreateRating
    \/ StartCreatePlace(1) \/ ExecCreatePlace(1) \/ ExecCreatePlaceStoreFails(1)
    \/ IndexPlace(1) \/ NotifyPlaceAdded(1) \/ NotifyPlaceAddedFails(1)
    \/ StartArchivePlaces(1) \/ ExecArchivePlaces(1) \/ UnindexEntry(1)
    \/ StartArchiveRatings(1) \/ ExecArchiveRatings(1) \/ LoadPlaceUids(1)
    \/ LoadEntry(1) \/ IndexEntry(1)
    \/ FlushIndex(1) \/ FinishFlow(1)

SpecPost == InitPost /\ [][NextPost]_vars

---------------------------------------------------------------------------
(* User tokens: replace_user_token as one call, consume_user_token as the two
   statements it executes, interleaved with the statements of other calls *)

\* Mutant: the DELETE of consume_user_token reports its rows but removes none
consume_delete_keep(d, email, nonce) ==
    IF DeleteTarget(d, email, nonce) = {} THEN Err(d, "NotFound") ELSE Ok(d)

\* consume_user_token, second statement: DELETE ... ; 0 rows => NotFound
consume_delete(d, email, nonce) ==
    IF DeleteTarget(d, email, nonce) = {} THEN Err(d, "NotFound")
    ELSE Ok([d EXCEPT !.user_tokens = @ \ DeleteTarget(d, email, nonce)])

TokensOf(d, email) == {x \in d.user_tokens : x.user = email}

\* Calls in progress are no longer one of a pair of calls on an untouched token:
\* a token was issued or expired, or a third call ran beside them
Disturbed(tk) ==
    [t \in Tasks |-> IF tk[t].pc = "idle" THEN tk[t] ELSE [tk[t] EXCEPT !.clean = FALSE]]

ReplaceUserToken ==
    \E email \in 0..MaxTokenUsers, nonce \in Nonces, exp \in Times :
        LET token == [user |-> email, nonce |-> nonce, expires_at |-> exp]
            r == replace_user_token(db, token, on_conflict)
        IN  /\ db' = Transaction(db, r)
            /\ last' = [op |-> "replace_user_token", res |-> r.res, token |-> token,
                        prev |-> TokensOf(db, email)]
            /\ task' = Disturbed(task)
            /\ UNCHANGED <<debug_assertions, clock, storeLock, idxWriter, idxReader,
                           notified, on_conflict, budget, indexMutex>>

StartConsume(t) ==
    \E email \in TokenEmails, nonce \in Nonces :
        /\ task[t].pc = "idle"
        /\ LET others == IF Cardinality({u \in Tasks : task[u].pc # "idle"}) >= 2
                          THEN Disturbed(task) ELSE task
           IN  task' = [others EXCEPT ![t] =
                        [IdleTask EXCEPT !.flow = "consume_user_token", !.pc = "get",
                                         !.account = email, !.nonce = nonce,
                                         !.had = (DeleteTarget(db, email, nonce) # {})]]
        /\ last' = NoCall
        /\ UNCHANGED <<db, debug_assertions, clock, storeLock, idxWriter, idxReader,
                       notified, on_conflict, budget, indexMutex>>

\* let token = self.get_user_token_by_email(&email_nonce.email)?;
ConsumeGet(t) ==
    /\ task[t].flow = "consume_user_token"
    /\ task[t].pc = "get"
    /\ LET found == get_user_token_by_email(db, task[t].account)
       IN  IF found = {}
           THEN task' = [task EXCEPT ![t].pc = "done", ![t].res = "NotFound"]
           ELSE \E tok \in found :
                    task' = [task EXCEPT ![t].pc = "delete", ![t].token = {tok}]
    /\ last' = NoCall
    /\ UNCHANGED <<db, debug_assertions, clock, storeLock, idxWriter, idxReader,
                   notified, on_conflict, budget, indexMutex>>

\* the DELETE, the row count test and the debug assertion on the token read before
ConsumeDelete(t) ==
    /\ task[t].flow = "consume_user_token"
    /\ task[t].pc = "delete"
    /\ LET r == consume_delete(db, task[t].account, task[t].nonce)
           res == IF r.res = "Ok" /\ debug_assertions
                     /\ (\E tok \in task[t].token : tok.nonce # task[t].nonce)
                  THEN "Panic" ELSE r.res
       IN  /\ db' = r.db
           /\ task' = [task EXCEPT ![t].pc = "done", ![t].res = res]
    /\ last' = NoCall
    /\ UNCHANGED <<debug_assertions, clock, storeLock, idxWriter, idxReader,
                   notified, on_conflict, budget, indexMutex>>

FinishConsume(t) ==
    /\ task[t].flow = "consume_user_token"
    /\ task[t].pc = "done"
    /\ task' = [Disturbed(task) EXCEPT ![t] = IdleTask]
    /\ last' = NoCall
    /\ UNCHANGED <<db, debug_assertions, clock, storeLock, idxWriter, idxReader,
                   notified, on_conflict, budget, indexMutex>>

DiscardExpiredUserTokens ==
    /\ db' = discard_expired_user_tokens(db, clock).db
    /\ task' = Disturbed(task)
    /\ last' = [op |-> "discard_expired_user_tokens", res |-> "Ok"]
    /\ UNCHANGED <<debug_assertions, clock, storeLock, idxWriter, idxReader,
                   notified, on_conflict, budget, indexMutex>>

InitToken ==
    /\ InitCommon
    /\ budget = 0
    /\ debug_assertions \in BOOLEAN
    /\ on_conflict \in {"replace", "ignore"}

NextToken ==
    \/ ReplaceUserToken
    \/ DiscardExpiredUserTokens
    \/ Tick
    \/ \E t \in Tasks : StartConsume(t) \/ ConsumeGet(t) \/ ConsumeDelete(t) \/ FinishConsume(t)

SpecToken == InitToken /\ [][NextToken]_vars

\* C9: two consume_user_token calls with the same (email, nonce), of which at
\* least one started while the token was stored, with no third call beside
\* them and no token issued or expired meanwhile: once both have returned,
\* exactly one has returned the token, the other NotFound, and the user has
\* no token left, in every interleaving of their statements.
C9_ConsumeExactlyOnce ==
    \A t1, t2 \in Tasks :
        (/\ t1 # t2
         /\ task[t1].flow = "consume_user_token" /\ task[t2].flow = "consume_user_token"
         /\ task[t1].pc = "done" /\ task[t2].pc = "done"
         /\ task[t1].account = task[t2].account /\ task[t1].nonce = task[t2].nonce
         /\ task[t1].had \/ task[t2].had
         /\ task[t1].clean /\ task[t2].clean)
        => /\ {task[t1].res, task[t2].res} = {"Ok", "NotFound"}
           /\ TokensOf(db, task[t1].account) = {}

\* C9 witness: both calls read the token before either deleted it
C9_Witness ==
    \E t1, t2 \in Tasks :
        /\ t1 # t2
        /\ task[t1].pc = "done" /\ task[t2].pc = "done"
        /\ task[t1].account = task[t2].account /\ task[t1].nonce = task[t2].nonce
        /\ task[t1].had /\ task[t2].had /\ task[t1].clean /\ task[t2].clean
        /\ task[t1].token # {} /\ task[t2].token # {}
        /\ task[t1].res = "Ok" /\ task[t2].res = "NotFound"

\* C10: after a replace_user_token call for an existing user the call has
\* succeeded and the user's stored tokens are exactly the token of that call,
\* whatever calls came before.
C10_ReplaceLeavesLastToken ==
    (last.op = "replace_user_token" /\ UserExists(db, last.token.user))
    => (last.res = "Ok" /\ TokensOf(db, last.token.user) = {last.token})

\* C10 witness: the same token was issued twice in a row
C10_Witness ==
    /\ last.op = "replace_user_token"
    /\ last.res = "Ok"
    /\ last.prev = {last.token}
    /\ TokensOf(db, last.token.user) = {last.token}

---------------------------------------------------------------------------
(* The rating and comment repositories called directly *)

\* A repository call outside a transaction: its statements are kept as
\* executed, also when the call returns an error afterwards
RepoCall(op, r, ids) ==
    /\ db' = r.db
    /\ last' = [op |-> op, res |-> r.res, ids |-> ids]
    /\ UNCHANGED <<debug_assertions, clock, task, storeLock, idxWriter, idxReader,
                   notified, on_conflict, budget, indexMutex>>

CreateNewPlace ==
    \E uid \in PlaceUids :
        LET r == create_entry(db, [uid |-> uid, version |-> 0, created_at |-> clock,
                                   archived_at |-> None, tags |-> {}], debug_assertions)
        IN  /\ ~PlaceExists(db, uid)
            /\ db' = Transaction(db, r)
            /\ UNCHANGED <<debug_assertions, clock, last, task, storeLock, idxWriter,
                           idxReader, notified, on_conflict, budget, indexMutex>>

ArchiveRatingsCall ==
    \E uids \in SUBSET RatingUids :
        uids # {} /\ RepoCall("archive_ratings", archive_ratings(db, uids, clock), uids)

ArchiveRatingsOfEntriesCall ==
    \E uids \in SUBSET PlaceUids :
        /\ uids # {}
        /\ RepoCall("archive_ratings_of_entries",
                    archive_ratings_of_entries(db, uids, clock), uids)

ArchiveCommentsCall ==
    \E uids \in SUBSET CommentUids :
        uids # {} /\ RepoCall("archive_comments", archive_comments(db, uids, clock), uids)

ArchiveCommentsOfRatingsCall ==
    \E uids \in SUBSET RatingUids :
        /\ uids # {}
        /\ RepoCall("archive_comments_of_ratings",
                    archive_comments_of_ratings(db, uids, clock), uids)

ArchiveCommentsOfEntriesCall ==
    \E uids \in SUBSET PlaceUids :
        /\ uids # {}
        /\ RepoCall("archive_comments_of_entries",
                    archive_comments_of_entries(db, uids, clock), uids)

InitRepo ==
    /\ InitCommon
    /\ budget = 0
    /\ debug_assertions \in BOOLEAN
    /\ on_conflict = "replace"

NextRepo ==
    \/ CreateNewPlace
    \/ CreateRating
    \/ CreateComment
    \/ ArchiveRatingsCall
    \/ ArchiveRatingsOfEntriesCall
    \/ ArchiveCommentsCall
    \/ ArchiveCommentsOfRatingsCall
    \/ ArchiveCommentsOfEntriesCall
    \/ Tick

SpecRepo == InitRepo /\ [][NextRepo]_vars

\* C12: a rating or a comment whose archived_at is set keeps that value in
\* every step, whichever archive call is made and whether it succeeds or fails.
C12_ArchivalMonotonic ==
    [][ /\ \A r \in db.rating : r.archived_at # None => r \in db'.rating
        /\ \A c \in db.comment : c.archived_at # None => c \in db'.comment
      ]_vars

\* C12 witness: a rating archived earlier has kept its time through a later
\* archive call that selects it
C12_Witness ==
    /\ last.op = "archive_ratings_of_entries"
    /\ \E r \in db.rating :
         /\ r.place \in last.ids
         /\ r.archived_at # None
         /\ r.archived_at < clock

\* C13: for every archived rating, every comment of it created before the
\* rating was archived is archived too, at the same time or later.
C13_CommentsFollowRating ==
    \A r \in db.rating :
        r.archived_at # None
        => \A c \in db.comment :
              (c.rating = r.uid /\ c.created_at < r.archived_at)
              => (c.archived_at # None /\ c.archived_at >= r.archived_at)

---------------------------------------------------------------------------
(* The place index called directly *)

\* The ratings handed to the indexer with a place
IndexRatings == SUBSET {[value |-> v] : v \in RatingValues}

\* PlaceIndexer::add_or_update_place
AddOrUpdatePlaceCall ==
    \E uid \in PlaceUids, tags \in SUBSET TagIds, ratings \in IndexRatings :
        LET doc == Doc(uid, tags, ratings)
        IN  /\ idxWriter' = add_or_update_place(idxWriter, doc)
            /\ last' = [op |-> "add_or_update_place", res |-> "Ok", doc |-> doc]
            /\ UNCHANGED <<db, debug_assertions, clock, task, storeLock, idxReader, notified,
                           on_conflict, budget, indexMutex>>

\* PlaceIndexer::remove_place_by_id
RemovePlaceByIdCall ==
    \E uid \in PlaceUids :
        /\ idxWriter' = remove_place_by_id(idxWriter, uid)
        /\ last' = [op |-> "remove_place_by_id", res |-> "Ok", id |-> uid]
        /\ UNCHANGED <<db, debug_assertions, clock, task, storeLock, idxReader, notified,
                       on_conflict, budget, indexMutex>>

\* PlaceIndexer::flush: commit()?, reload()?
FlushCall ==
    \E ok \in BOOLEAN :
        /\ idxReader' = flush(idxWriter, idxReader, ok)
        /\ last' = [op |-> "flush", res |-> IF ok THEN "Ok" ELSE "Other(TantivyError)"]
        /\ UNCHANGED <<db, debug_assertions, clock, task, storeLock, idxWriter, notified,
                       on_conflict, budget, indexMutex>>

InitIndex ==
    /\ InitCommon
    /\ budget = 0
    /\ debug_assertions \in BOOLEAN
    /\ on_conflict = "replace"

NextIndex ==
    \/ AddOrUpdatePlaceCall
    \/ RemovePlaceByIdCall
    \/ FlushCall

SpecIndex == InitIndex /\ [][NextIndex]_vars

\* The answer to the query for the place with the given uid
Visible(reader, uid) == query_places(reader, {uid}, 1)

\* C17: a successful flush that follows add_or_update_place makes the written
\* document the answer to the query for its id; every successful flush makes
\* the answer for each id the document last written for it, or nothing when
\* it was removed since; the answers change in no other step, so that a
\* flushed document stays visible until a later write for its id is flushed,
\* and a write for one id leaves what is written for the other ids.
C17_FlushedDocumentVisible ==
    [][ LET flushed == last'.op = "flush" /\ last'.res = "Ok" /\ idxWriter' = idxWriter
        IN  /\ (flushed /\ last.op = "add_or_update_place")
                  => Visible(idxReader', last.doc.id) = <<last.doc>>
            /\ flushed
                  => \A uid \in PlaceUids :
                        /\ Cardinality({x \in idxWriter : x.id = uid}) <= 1
                        /\ Visible(idxReader', uid) = Visible(idxWriter, uid)
            /\ ~flushed
                  => \A uid \in PlaceUids : Visible(idxReader', uid) = Visible(idxReader, uid)
            /\ last'.op = "add_or_update_place"
                  => \A uid \in PlaceUids \ {last'.doc.id} :
                        Visible(idxWriter', uid) = Visible(idxWriter, uid)
            /\ last'.op = "remove_place_by_id"
                  => \A uid \in PlaceUids \ {last'.id} :
                        Visible(idxWriter', uid) = Visible(idxWriter, uid)
      ]_vars

\* C17 witness: a document with a tag and a rating has been flushed and its
\* place then removed without a flush, so that the query still answers with
\* the document
C17_Witness ==
    /\ last.op = "remove_place_by_id"
    /\ Visible(idxWriter, last.id) = <<>>
    /\ \E x \in idxReader : x.id = last.id /\ x.total = 20 /\ x.tags # {}

---------------------------------------------------------------------------
(* Bounding boxes and the clauses build_query makes of them; positions are
   [lat, lng] in raw fixed-point units, boxes are [sw, ne] *)

\* MapBbox::contains_point: inclusive on the four edges; a box with
\* sw.lng > ne.lng covers [sw.lng, +180] and [-180, ne.lng]
contains_point(bbox, p) ==
    /\ bbox.sw.lat <= p.lat /\ p.lat <= bbox.ne.lat
    /\ IF bbox.sw.lng <= bbox.ne.lng
       THEN bbox.sw.lng <= p.lng /\ p.lng <= bbox.ne.lng
       ELSE bbox.sw.lng <= p.lng \/ p.lng <= bbox.ne.lng

\* RangeQuery::new_i64_bounds with both bounds Included or both Excluded
RangeQuery(field, lo, hi, included) ==
    [field |-> field, lo |-> lo, hi |-> hi, included |-> included]

\* Whether the value of a document is in the range of a RangeQuery
InRange(q, doc) ==
    LET x == IF q.field = "lat" THEN doc.lat ELSE doc.lng
    IN  IF q.included THEN q.lo <= x /\ x <= q.hi ELSE q.lo < x /\ x < q.hi

\* Mutant: the longitude clause of a box across the antimeridian excludes the
\* closed range
IncludeBboxClosed(bbox) ==
    {[occur |-> "Must", query |-> RangeQuery("lat", bbox.sw.lat, bbox.ne.lat, TRUE)]}
    \cup IF bbox.sw.lng <= bbox.ne.lng
         THEN {[occur |-> "Must",
                query |-> RangeQuery("lng", bbox.sw.lng, bbox.ne.lng, TRUE)]}
         ELSE {[occur |-> "MustNot",
                query |-> RangeQuery("lng", bbox.ne.lng, bbox.sw.lng, TRUE)]}

\* build_query, "Bbox (include)": the clauses for include_bbox
IncludeBbox(bbox) ==
    {[occur |-> "Must", query |-> RangeQuery("lat", bbox.sw.lat, bbox.ne.lat, TRUE)]}
    \cup IF bbox.sw.lng <= bbox.ne.lng
         THEN {[occur |-> "Must",
                query |-> RangeQuery("lng", bbox.sw.lng, bbox.ne.lng, TRUE)]}
         ELSE {[occur |-> "MustNot",
                query |-> RangeQuery("lng", bbox.ne.lng, bbox.sw.lng, FALSE)]}

\* build_query, "Inverse Bbox (exclude)": the clauses for exclude_bbox
ExcludeBbox(bbox) ==
    {[occur |-> "MustNot", query |-> RangeQuery("lat", bbox.sw.lat, bbox.ne.lat, TRUE)]}
    \cup IF bbox.sw.lng <= bbox.ne.lng
         THEN {[occur |-> "MustNot",
                query |-> RangeQuery("lng", bbox.sw.lng, bbox.ne.lng, TRUE)]}
         ELSE {[occur |-> "Must",
                query |-> RangeQuery("lng", bbox.ne.lng, bbox.sw.lng, FALSE)]}

\* build_query for a query of bounding boxes: include and exclude are sets
\* of at most one box
build_query(include, exclude) ==
    UNION {IncludeBbox(b) : b \in include} \cup UNION {ExcludeBbox(b) : b \in exclude}

\* BooleanQuery: a document matches when it matches every Must clause and no
\* MustNot clause; a query without a Must clause matches nothing
Matches(clauses, doc) ==
    /\ \E c \in clauses : c.occur = "Must"
    /\ \A c \in clauses : (c.occur = "Must") = InRange(c.query, doc)

\* The raw coordinates drawn for the boxes and the positions
GridLats == {-RawLatMax, -1, 0, RawLatMax}
GridLngs == {-RawLngMax, 1 - RawLngMax, -1, 0, 1, RawLngMax - 1, RawLngMax}
GridPoints == [lat : GridLats, lng : GridLngs]

\* debug_assert!(bbox.is_valid()), debug_assert!(!bbox.is_empty())
GridBboxes ==
    {b \in [sw : GridPoints, ne : GridPoints] : b.sw.lat < b.ne.lat /\ b.sw.lng # b.ne.lng}

\* PlaceIndex::query_places for a query that holds bounding boxes only
query_places_bbox(reader, include, exclude, limit) ==
    IF limit <= 0 THEN [res |-> "Other(InvalidLimit)", places |-> <<>>]
    ELSE [res |-> "Ok",
          places |-> TopDocs({x \in reader : Matches(build_query(include, exclude), x)},
                             limit)]

\* The document of a place without ratings at a position
GeoDoc(uid, p) == [id |-> uid, lat |-> p.lat, lng |-> p.lng, total |-> AvgTotal({})]

\* The elements of a sequence
Range(seq) == {seq[i] : i \in 1..Len(seq)}

\* query_places with include_bbox
QueryPlacesCall ==
    \E bbox \in GridBboxes :
        LET r == query_places_bbox(idxReader, {bbox}, {}, 1)
        IN  /\ last' = [op |-> "query_places", res |-> r.res, bbox |-> bbox,
                        places |-> r.places]
            /\ UNCHANGED <<db, debug_assertions, clock, task, storeLock, idxWriter,
                           idxReader, notified, on_conflict, budget, indexMutex>>

\* An index that holds one place, at any position of the grid
InitBbox ==
    /\ db = [EmptyDb EXCEPT !.users = InitialUsers]
    /\ clock = 1
    /\ last = NoCall
    /\ task = [t \in Tasks |-> IdleTask]
    /\ storeLock = None
    /\ \E p \in GridPoints : idxWriter = {GeoDoc(1, p)}
    /\ idxReader = idxWriter
    /\ notified = {}
    /\ indexMutex = [holder |-> None, poisoned |-> FALSE]
    /\ budget = 0
    /\ debug_assertions \in BOOLEAN
    /\ on_conflict = "replace"

NextBbox == QueryPlacesCall

SpecBbox == InitBbox /\ [][NextBbox]_vars

\* C18: a query with include_bbox finds the indexed place exactly when the
\* box contains its position, edges included, for regular boxes and for
\* boxes across the antimeridian.
C18_IncludeBboxIsContainsPoint ==
    last.op = "query_places"
    => \A x \in idxReader : (x \in Range(last.places)) <=> contains_point(last.bbox, x)

\* C18 witness: a box across the antimeridian that ends east of -180 degrees
\* and starts west of +180 degrees has found a place on its eastern edge
C18_Witness ==
    /\ last.op = "query_places"
    /\ last.bbox.sw.lng > last.bbox.ne.lng
    /\ last.bbox.sw.lng < RawLngMax
    /\ last.bbox.ne.lng > -RawLngMax
    /\ \E x \in Range(last.places) : x.lng = last.bbox.ne.lng /\ x.lat = last.bbox.sw.lat

---------------------------------------------------------------------------
(* usecases::search over an index of places at chosen positions *)

\* filter::extend_bbox: the box grown by a tenth of its sides in each
\* direction and clipped to the legal coordinates; a box across the
\* antimeridian stays one
extend_bbox(bbox) ==
    LET wrap == bbox.sw.lng > bbox.ne.lng
        dlat == (bbox.ne.lat - bbox.sw.lat) \div 10
        width == IF wrap THEN 2 * RawLngMax - (bbox.sw.lng - bbox.ne.lng)
                 ELSE bbox.ne.lng - bbox.sw.lng
        dlng == width \div 10
        south == IF bbox.sw.lat - dlat < -RawLatMax THEN -RawLatMax ELSE bbox.sw.lat - dlat
        north == IF bbox.ne.lat + dlat > RawLatMax THEN RawLatMax ELSE bbox.ne.lat + dlat
        west == IF bbox.sw.lng - dlng < -RawLngMax THEN -RawLngMax ELSE bbox.sw.lng - dlng
        east == IF bbox.ne.lng + dlng > RawLngMax THEN RawLngMax ELSE bbox.ne.lng + dlng
    IN  IF wrap /\ west <= east
        THEN [sw |-> [lat |-> south, lng |-> bbox.sw.lng],
              ne |-> [lat |-> north, lng |-> bbox.ne.lng]]
        ELSE [sw |-> [lat |-> south, lng |-> west], ne |-> [lat |-> north, lng |-> east]]

\* Mutant: the second query is always made, with the whole limit
search_backfill_unbounded(reader, bbox, limit, dbg) ==
    LET v == query_places_bbox(reader, {bbox}, {}, limit)
        i == query_places_bbox(reader, {extend_bbox(bbox)}, {bbox}, limit)
    IN  IF v.res # "Ok" THEN [res |-> v.res, visible |-> <<>>, invisible |-> <<>>]
        ELSE [res |-> "Ok", visible |-> v.places, invisible |-> i.places]

\* usecases::search for a request that holds a bounding box only
search(reader, bbox, limit, dbg) ==
    LET v == query_places_bbox(reader, {bbox}, {}, limit)
        i == IF Len(v.places) < limit
             THEN query_places_bbox(reader, {extend_bbox(bbox)}, {bbox},
                                    limit - Len(v.places))
             ELSE [res |-> "Ok", places |-> <<>>]
        failed(res) == [res |-> res, visible |-> <<>>, invisible |-> <<>>]
    IN  IF v.res # "Ok" THEN failed(v.res)
        ELSE IF dbg /\ \E x \in Range(v.places) : ~contains_point(bbox, x)
        THEN failed("Panic")                                  \* debug_assert!
        ELSE IF i.res # "Ok" THEN failed(i.res)
        ELSE IF dbg /\ \E x \in Range(i.places) : contains_point(bbox, x)
        THEN failed("Panic")                                  \* debug_assert!
        ELSE [res |-> "Ok", visible |-> v.places, invisible |-> i.places]

\* The boxes of the requests: a regular one, one across the antimeridian and
\* one that touches the north pole
SearchBboxes ==
    { [sw |-> [lat |-> 0, lng |-> 0], ne |-> [lat |-> 10, lng |-> 10]],
      [sw |-> [lat |-> 0, lng |-> RawLngMax - 5], ne |-> [lat |-> 10, lng |-> 5 - RawLngMax]],
      [sw |-> [lat |-> RawLatMax - 10, lng |-> 0], ne |-> [lat |-> RawLatMax, lng |-> 10]] }

\* The positions of the indexed places: inside, on the frame around and
\* outside the boxes of the requests
SearchPoints == [lat : {-1, 5, 11}, lng : {-1, 5, 11, RawLngMax - 6, RawLngMax - 3}]

\* reindex_place followed by flush_index, as create_place does
ReindexPlaceAndFlush ==
    \E uid \in PlaceUids, p \in SearchPoints :
        /\ idxWriter' = add_or_update_place(idxWriter, GeoDoc(uid, p))
        /\ idxReader' = flush(idxWriter', idxReader, TRUE)
        /\ last' = NoCall
        /\ UNCHANGED <<db, debug_assertions, clock, task, storeLock, notified, on_conflict,
                       budget, indexMutex>>

\* usecases::search
SearchCall ==
    \E bbox \in SearchBboxes, limit \in 0..MaxLimit :
        LET r == search(idxReader, bbox, limit, debug_assertions)
        IN  /\ last' = [op |-> "search", res |-> r.res, bbox |-> bbox, limit |-> limit,
                        visible |-> r.visible, invisible |-> r.invisible]
            /\ UNCHANGED <<db, debug_assertions, clock, task, storeLock, idxWriter,
                           idxReader, notified, on_conflict, budget, indexMutex>>

InitSearch ==
    /\ InitCommon
    /\ budget = 0
    /\ debug_assertions \in BOOLEAN
    /\ on_conflict = "replace"

NextSearch ==
    \/ ReindexPlaceAndFlush
    \/ SearchCall

SpecSearch == InitSearch /\ [][NextSearch]_vars

\* C19: a search that succeeds returns visible places inside the box of the
\* request and invisible places inside the extended box but outside the box
\* of the request; there are no invisible places when the visible ones
\* reach the limit, and both lists together hold at most limit places.
C19_SearchSplit ==
    (last.op = "search" /\ last.res = "Ok")
    => /\ \A x \in Range(last.visible) : contains_point(last.bbox, x)
       /\ \A x \in Range(last.invisible) :
             contains_point(extend_bbox(last.bbox), x) /\ ~contains_point(last.bbox, x)
       /\ Len(last.visible) = last.limit => last.invisible = <<>>
       /\ Len(last.visible) + Len(last.invisible) <= last.limit

\* C19 witness: a search with limit 2 has returned one visible and one
\* invisible place
C19_Witness ==
    /\ last.op = "search" /\ last.res = "Ok" /\ last.limit = 2
    /\ Len(last.visible) = 1 /\ Len(last.invisible) = 1

\* The places of the index inside the extended box and outside the box
Backfill(reader, bbox) ==
    {x \in reader : contains_point(extend_bbox(bbox), x) /\ ~contains_point(bbox, x)}

\* C20: when a search finds fewer visible places than limit, the invisible
\* list holds as many of the places inside the extended box and outside the
\* box of the request as the limit leaves room for.
C20_BackfillComplete ==
    (last.op = "search" /\ last.res = "Ok" /\ Len(last.visible) < last.limit)
    => Len(last.invisible)
         = Min({last.limit - Len(last.visible), Cardinality(Backfill(idxReader, last.bbox))})

---------------------------------------------------------------------------
(* The ranking mode chosen by build_query; a query is
   [ids, hash_tags, text_tags, text] and a text is None, a text the query
   parser accepts or a text it rejects *)

TextParsable == 1
TextUnparsable == 2
Texts == {None, TextParsable, TextUnparsable}

\* self.text_query_parser.parse_query(&text)
parse_query(text) == IF text = TextParsable THEN "Ok" ELSE "Err"

\* build_query, "Text" and "Text tags (optional)": the clauses collected in
\* text_and_tags_queries
text_and_tags_queries(q) ==
    (IF q.text # None /\ parse_query(q.text) = "Ok"
        /\ ~(q.hash_tags = {} /\ q.text_tags = {})
     THEN {"text"} ELSE {})
    \cup {"tag" : t \in q.text_tags}

\* build_query: whether the parsed text became a clause of the query, in
\* sub_queries or in text_and_tags_queries
HasTextClause(q) == q.text # None /\ parse_query(q.text) = "Ok"

\* build_query: the TopDocsMode it returns
top_docs_mode(q) ==
    IF text_and_tags_queries(q) = {} THEN "Rating" ELSE "ScoreBoostedByRating"

\* The IndexQuery of global_search: the text and nothing else
global_search_query(txt) == [ids |-> {}, hash_tags |-> {}, text_tags |-> {}, text |-> txt]

\* The queries handed to build_query
IndexQueries ==
    [ids : SUBSET PlaceUids, hash_tags : SUBSET TagIds, text_tags : SUBSET TagIds,
     text : Texts]

\* build_query applied to the query drawn at the start
BuildQueryCall ==
    /\ last.op = "query"
    /\ last' = [op |-> "build_query", res |-> "Ok", query |-> last.query,
                mode |-> top_docs_mode(last.query)]
    /\ UNCHANGED <<db, debug_assertions, clock, task, storeLock, idxWriter, idxReader,
                   notified, on_conflict, budget, indexMutex>>

\* usecases::global_search(index, txt, limit)
GlobalSearchCall ==
    \E txt \in Texts \ {None} :
        /\ last' = [op |-> "global_search", res |-> "Ok", query |-> global_search_query(txt),
                    mode |-> top_docs_mode(global_search_query(txt))]
        /\ UNCHANGED <<db, debug_assertions, clock, task, storeLock, idxWriter, idxReader,
                       notified, on_conflict, budget, indexMutex>>

InitQuery ==
    /\ db = [EmptyDb EXCEPT !.users = InitialUsers]
    /\ clock = 1
    /\ \E q \in IndexQueries : last = [op |-> "query", res |-> "none", query |-> q]
    /\ task = [t \in Tasks |-> IdleTask]
    /\ storeLock = None
    /\ idxWriter = {}
    /\ idxReader = {}
    /\ notified = {}
    /\ indexMutex = [holder |-> None, poisoned |-> FALSE]
    /\ budget = 0
    /\ debug_assertions \in BOOLEAN
    /\ on_conflict = "replace"

NextQuery ==
    \/ BuildQueryCall
    \/ GlobalSearchCall

SpecQuery == InitQuery /\ [][NextQuery]_vars

\* C21: build_query chooses the rating-only mode exactly for the queries
\* without a text clause and without a text-tag clause, and every query
\* whose text became a clause, the one of global_search included, is ranked
\* in the score-boosted mode.
C21_RatingModeIffNoText ==
    last.op \in {"build_query", "global_search"}
    => /\ (last.mode = "Rating")
            <=> (~HasTextClause(last.query) /\ last.query.text_tags = {})
       /\ HasTextClause(last.query) => last.mode = "ScoreBoostedByRating"

---------------------------------------------------------------------------
(* What leaves the core: export_place and the event details; a place is
   [tags, contact] and an event is [tags, contact, created_by], where contact
   and created_by tell whether the field is present *)

\* The tags of the exported places and events
ExportTags == 1..(MaxTags + 2)

\* The tags owned by some organization
OrgTags == 1..(MaxTags + 1)

\* filter_place: the tags owned by an organization are removed unless the
\* caller owns them
filter_place(place, owned_tags) ==
    [place EXCEPT !.tags = {t \in @ : t \notin OrgTags \/ t \in owned_tags}]

\* Place::strip_contact_details
strip_contact_details(place) == [place EXCEPT !.contact = FALSE]

\* Mutant: the contact details are kept for administrators only
export_place_contact_for_admin(place, role, owned_tags) ==
    IF role < RoleAdmin THEN strip_contact_details(filter_place(place, owned_tags))
    ELSE place

\* usecases::export_place
export_place(place, role, owned_tags) ==
    IF role < RoleAdmin
    THEN LET filtered == filter_place(place, owned_tags)
         IN  IF role < RoleScout THEN strip_contact_details(filtered) ELSE filtered
    ELSE place

ExportedPlaces == [tags : SUBSET ExportTags, contact : BOOLEAN]

\* usecases::export_place for a place, a role and the tags the caller owns
ExportPlaceCall ==
    \E place \in ExportedPlaces, role \in Roles, owned_tags \in SUBSET OrgTags :
        /\ last' = [op |-> "export_place", res |-> "Ok", place |-> place, role |-> role,
                    owned_tags |-> owned_tags,
                    out |-> export_place(place, role, owned_tags)]
        /\ UNCHANGED <<db, debug_assertions, clock, task, storeLock, idxWriter, idxReader,
                       notified, on_conflict, budget, indexMutex>>

\* is_event_owned: the event has one of the owned tags
is_event_owned(event, owned_tags) == \E tag \in owned_tags : tag \in event.tags

\* strip_event_details_on_search, for one event of the iterator
strip_event_details_on_search(event, owned_tags) ==
    IF is_event_owned(event, owned_tags) THEN event
    ELSE [event EXCEPT !.created_by = FALSE]

\* strip_event_details_on_export, for one event of the iterator
strip_event_details_on_export(event, role, owned_tags) ==
    IF role >= RoleAdmin THEN event
    ELSE IF role >= RoleScout
    THEN IF is_event_owned(event, owned_tags) THEN event
         ELSE [event EXCEPT !.created_by = FALSE]
    ELSE [event EXCEPT !.contact = FALSE, !.created_by = FALSE]

ExportedEvents == [tags : SUBSET ExportTags, contact : BOOLEAN, created_by : BOOLEAN]

\* The events found by a search go through strip_event_details_on_search
\* with the owned tags of the caller, whatever the role of the caller
StripEventDetailsOnSearchCall ==
    \E event \in ExportedEvents, role \in Roles, owned_tags \in SUBSET OrgTags :
        /\ last' = [op |-> "strip_event_details_on_search", res |-> "Ok", event |-> event,
                    role |-> role, owned_tags |-> owned_tags,
                    out |-> strip_event_details_on_search(event, owned_tags)]
        /\ UNCHANGED <<db, debug_assertions, clock, task, storeLock, idxWriter, idxReader,
                       notified, on_conflict, budget, indexMutex>>

\* The exported events go through strip_event_details_on_export
StripEventDetailsOnExportCall ==
    \E event \in ExportedEvents, role \in Roles, owned_tags \in SUBSET OrgTags :
        /\ last' = [op |-> "strip_event_details_on_export", res |-> "Ok", event |-> event,
                    role |-> role, owned_tags |-> owned_tags,
                    out |-> strip_event_details_on_export(event, role, owned_tags)]
        /\ UNCHANGED <<db, debug_assertions, clock, task, storeLock, idxWriter, idxReader,
                       notified, on_conflict, budget, indexMutex>>

InitExport ==
    /\ InitCommon
    /\ budget = 0
    /\ debug_assertions \in BOOLEAN
    /\ on_conflict = "replace"

NextExport ==
    \/ ExportPlaceCall
    \/ StripEventDetailsOnSearchCall
    \/ StripEventDetailsOnExportCall

SpecExport == InitExport /\ [][NextExport]_vars

\* C24: export_place returns the place unchanged to an administrator; for a
\* lower role it removes every tag that an organization owns and the caller
\* does not, and keeps the others; the contact details are removed exactly
\* when the role is below scout.
C24_ExportPlace ==
    last.op = "export_place"
    => /\ last.role >= RoleAdmin => last.out = last.place
       /\ last.role < RoleAdmin
            => last.out.tags = {t \in last.place.tags :
                                  ~(t \in OrgTags /\ t \notin last.owned_tags)}
       /\ last.place.contact => (~last.out.contact <=> last.role < RoleScout)
       /\ ~last.place.contact => ~last.out.contact

\* C24 witness: a scout has exported a place with contact details, a tag of
\* the scout's organization, a tag of another organization and a free tag
C24_Witness ==
    /\ last.op = "export_place"
    /\ last.role = RoleScout
    /\ last.place.contact /\ last.out.contact
    /\ last.place.tags = ExportTags
    /\ last.owned_tags = {1}
    /\ last.out.tags = ExportTags \ (OrgTags \ {1})

\* C25: an event that is exported to, or found by the search of, a caller
\* below administrator has no created_by unless it has one of the caller's
\* owned tags; an administrator gets every event unchanged; an exported event
\* keeps its contact details for a scout and loses them below scout.
C25_EventDetails ==
    last.op \in {"strip_event_details_on_search", "strip_event_details_on_export"}
    => /\ (last.role < RoleAdmin /\ last.event.tags \cap last.owned_tags = {})
            => ~last.out.created_by
       /\ last.role >= RoleAdmin => last.out = last.event
       /\ (last.op = "strip_event_details_on_export" /\ last.event.contact)
            => (last.out.contact <=> last.role >= RoleScout)

---------------------------------------------------------------------------
(* Archiving ratings and comments through the web frontend: the routes
   POST /ratings/actions/archive and POST /comments/actions/archive take the
   account of the session; without a login the routes do not match *)

\* The account of a request: None when nobody is logged in
Sessions == {None} \cup {u.email : u \in InitialUsers}

\* usecases::archive_comments: authorize, then archive the comments
usecase_archive_comments(d, account_email, ids, at) ==
    IF RoleOf(d, account_email) < RoleScout THEN Err(d, "Forbidden")
    ELSE archive_comments(d, ids, at)

\* post_archive_ratings: every place of the ratings that can be loaded is
\* indexed again with the ratings it has left
RECURSIVE post_archive_ratings(_, _, _)
post_archive_ratings(d, writer, place_uids) ==
    IF place_uids = {} THEN writer
    ELSE LET uid == Min(place_uids)
             rev == CHOOSE r \in get_entry(d, uid) : TRUE
             w == IF EntryExists(d, uid)
                  THEN add_or_update_place(writer, Doc(uid, TagsOfRev(d, rev.id),
                                                       load_ratings_of_entry(d, uid)))
                  ELSE writer
         IN  post_archive_ratings(d, w, place_uids \ {uid})

\* The result of a request, recorded with its account and its ids
Request(op, account, ids, res) ==
    last' = [op |-> op, res |-> res, account |-> account, ids |-> ids]

\* POST /ratings/actions/archive: flows::archive_ratings for the account of
\* the session, that is exec_archive_ratings in a transaction and then
\* post_archive_ratings with its flush
PostRatingsArchive ==
    \E account \in Sessions, ids \in SUBSET RatingUids :
        LET r == usecase_archive_ratings(db, account, ids, clock)
            d1 == Transaction(db, r)
            w == post_archive_ratings(d1, idxWriter, load_entry_ids_of_ratings(d1, ids))
        IN  /\ ids # {}
            /\ IF account = None
               THEN /\ Request("post_ratings_archive", account, ids, "NotFound")
                    /\ UNCHANGED <<db, idxWriter, idxReader>>
               ELSE /\ Request("post_ratings_archive", account, ids, r.res)
                    /\ db' = d1
                    /\ idxWriter' = IF r.res = "Ok" THEN w ELSE idxWriter
                    /\ idxReader' = IF r.res = "Ok" THEN flush(w, idxReader, TRUE)
                                    ELSE idxReader
            /\ UNCHANGED <<debug_assertions, clock, task, storeLock, notified,
                           on_conflict, budget, indexMutex>>

\* POST /comments/actions/archive: usecases::archive_comments for the account
\* of the session in a transaction
PostCommentsArchive ==
    \E account \in Sessions, ids \in SUBSET CommentUids :
        LET r == usecase_archive_comments(db, account, ids, clock)
        IN  /\ ids # {}
            /\ IF account = None
               THEN /\ Request("post_comments_archive", account, ids, "NotFound")
                    /\ UNCHANGED db
               ELSE /\ Request("post_comments_archive", account, ids, r.res)
                    /\ db' = Transaction(db, r)
            /\ UNCHANGED <<debug_assertions, clock, task, storeLock, idxWriter,
                           idxReader, notified, on_conflict, budget, indexMutex>>

\* No request reaches a debug assertion, so one build is enough
InitModeration ==
    /\ InitCommon
    /\ budget = 0
    /\ debug_assertions = FALSE
    /\ on_conflict = "replace"

NextModeration ==
    \/ CreateNewPlace
    \/ CreateRating
    \/ CreateComment
    \/ PostRatingsArchive
    \/ PostCommentsArchive

SpecModeration == InitModeration /\ [][NextModeration]_vars

\* A request to archive is made in this step (a request that repeats the
\* previous one with the same result changes nothing)
ArchiveRequest ==
    /\ last'.op \in {"post_ratings_archive", "post_comments_archive"}
    /\ last' # last

\* The comments the request names, or the comments of the ratings it names
NamedComments(d, l) ==
    IF l.op = "post_comments_archive" THEN {c \in d.comment : c.uid \in l.ids}
    ELSE {c \in d.comment : c.rating \in l.ids}

---------------------------------------------------------------------------
(* The SearchEngine: the TantivyPlaceIndex behind Arc<Mutex<...>>, called by
   several threads.  A call takes the guard, runs the method of the index
   and drops the guard when it returns; a thread that panics inside the
   index drops the guard while unwinding and leaves the mutex poisoned *)

MaxEngineCalls == 4

EngineMethods == {"query_places", "add_or_update_place", "remove_place_by_id", "flush"}

\* Mutex::lock: the guard, inside Err(PoisonError) when the mutex is poisoned
MutexLock(mutex) == IF mutex.poisoned THEN "Err(poisoned)" ELSE "Ok(guard)"

\* Mutant: self.0.lock().unwrap()
lock_unwrap(mutex) == IF MutexLock(mutex) = "Ok(guard)" THEN "guard" ELSE "panic"

\* match self.0.lock() { Ok(guard) => guard, Err(poisoned) => poisoned.into_inner() }
lock_or_recover(mutex) == IF MutexLock(mutex) = "Ok(guard)" THEN "guard" ELSE "guard"

\* A thread calls a method of the SearchEngine
EngineCall(t) ==
    \E method \in EngineMethods, uid \in PlaceUids :
        /\ FreeTask(t)
        /\ budget > 0
        /\ budget' = budget - 1
        /\ task' = [task EXCEPT ![t] = [IdleTask EXCEPT !.flow = method, !.pc = "lock",
                                                        !.uid = uid]]
        /\ UNCHANGED <<db, debug_assertions, clock, last, storeLock, idxWriter, idxReader,
                       notified, on_conflict, indexMutex>>

\* self.0.lock() returns once the mutex is free
EngineLock(t) ==
    /\ task[t].pc = "lock"
    /\ indexMutex.holder = None
    /\ IF lock_or_recover(indexMutex) = "guard"
       THEN /\ indexMutex' = [indexMutex EXCEPT !.holder = t]
            /\ task' = [task EXCEPT ![t].pc = IF task[t].flow = "query_places"
                                              THEN "searcher" ELSE "run"]
       ELSE /\ indexMutex' = indexMutex
            /\ task' = [task EXCEPT ![t].pc = "poisoned", ![t].res = "Panic"]
    /\ UNCHANGED <<db, debug_assertions, clock, last, storeLock, idxWriter, idxReader,
                   notified, on_conflict, budget>>

\* TantivyPlaceIndex::query_places: self.index_reader.searcher()
EngineSearcher(t) ==
    /\ task[t].pc = "searcher"
    /\ task' = [task EXCEPT ![t].loaded = idxReader, ![t].pc = "search"]
    /\ UNCHANGED <<db, debug_assertions, clock, last, storeLock, idxWriter, idxReader,
                   notified, on_conflict, budget, indexMutex>>

\* TantivyPlaceIndex::query_places: searcher.search(...), the result is
\* returned and the guard of SearchEngine::query_places goes out of scope
EngineSearch(t) ==
    /\ task[t].pc = "search"
    /\ indexMutex.holder = t
    /\ task' = [task EXCEPT
                  ![t].todo = Range(query_places(task[t].loaded, {task[t].uid}, 1)),
                  ![t].res = "Ok",
                  ![t].pc = "done"]
    /\ indexMutex' = [indexMutex EXCEPT !.holder = None]
    /\ UNCHANGED <<db, debug_assertions, clock, last, storeLock, idxWriter, idxReader,
                   notified, on_conflict, budget>>

\* add_or_update_place, remove_place_by_id or flush of the index run under
\* the guard, which is dropped on return
EngineRun(t) ==
    \E ok \in BOOLEAN :
        /\ task[t].pc = "run"
        /\ indexMutex.holder = t
        /\ task[t].flow = "flush" \/ ok
        /\ idxWriter' = CASE task[t].flow = "add_or_update_place"
                               -> add_or_update_place(idxWriter, Doc(task[t].uid, {}, {}))
                          [] task[t].flow = "remove_place_by_id"
                               -> remove_place_by_id(idxWriter, task[t].uid)
                          [] OTHER -> idxWriter
        /\ idxReader' = IF task[t].flow = "flush" THEN flush(idxWriter, idxReader, ok)
                        ELSE idxReader
        /\ task' = [task EXCEPT ![t].res = IF ok THEN "Ok" ELSE "Other(TantivyError)",
                                ![t].pc = "done"]
        /\ indexMutex' = [indexMutex EXCEPT !.holder = None]
        /\ UNCHANGED <<db, debug_assertions, clock, last, storeLock, notified,
                       on_conflict, budget>>

\* The thread panics inside the index: unwinding drops the guard, and the
\* mutex is poisoned from then on
EnginePanic(t) ==
    /\ task[t].pc \in {"run", "searcher", "search"}
    /\ indexMutex.holder = t
    /\ indexMutex' = [holder |-> None, poisoned |-> TRUE]
    /\ task' = [task EXCEPT ![t].pc = "panicked", ![t].res = "Panic"]
    /\ UNCHANGED <<db, debug_assertions, clock, last, storeLock, idxWriter, idxReader,
                   notified, on_conflict, budget>>

\* The call has returned, or the thread is gone
EngineReturn(t) ==
    /\ task[t].pc \in {"done", "panicked", "poisoned"}
    /\ task' = [task EXCEPT ![t] = IdleTask]
    /\ UNCHANGED <<db, debug_assertions, clock, last, storeLock, idxWriter, idxReader,
                   notified, on_conflict, budget, indexMutex>>

InitEngine ==
    /\ InitCommon
    /\ budget = MaxEngineCalls
    /\ debug_assertions = FALSE
    /\ on_conflict = "replace"

NextEngine ==
    \E t \in Tasks :
        \/ EngineCall(t)
        \/ EngineLock(t)
        \/ EngineSearcher(t)
        \/ EngineSearch(t)
        \/ EngineRun(t)
        \/ EnginePanic(t)
        \/ EngineReturn(t)

SpecEngine == InitEngine /\ [][NextEngine]_vars

\* Every thread that is scheduled makes its step; nothing makes a thread panic
FairEngine ==
    \A t \in Tasks :
        /\ WF_vars(EngineLock(t))
        /\ WF_vars(EngineSearcher(t))
        /\ WF_vars(EngineSearch(t))
        /\ WF_vars(EngineRun(t))
        /\ WF_vars(EngineReturn(t))

SpecEngineFair == SpecEngine /\ FairEngine

\* C27: once a thread has panicked while holding the index mutex, every call
\* of query_places, add_or_update_place, remove_place_by_id and flush that
\* takes the mutex gets the guard and goes on to run its operation: the call
\* ends with the result of the operation unless the thread panics inside the
\* index itself.
C27_PoisonedLockRecovery ==
    /\ [][ \A t \in Tasks :
             (indexMutex.poisoned /\ task[t].pc = "lock" /\ task'[t].pc # "lock")
             => /\ indexMutex'.holder = t
                /\ task'[t].pc \in {"searcher", "run"} ]_vars
    /\ \A t \in Tasks :
         (indexMutex.poisoned /\ task[t].pc = "lock")
         ~> (task[t].pc \in {"done", "panicked"})

\* C27 witness: a flush has run to its end on a poisoned mutex
C27_Witness ==
    /\ indexMutex.poisoned
    /\ \E t \in Tasks : task[t].flow = "flush" /\ task[t].pc = "done" /\ task[t].res = "Ok"

\* C28: while the search of a query_places call is in progress, the calling
\* thread no longer holds the index mutex, so that another call waiting for
\* the mutex can take it.
C28_SearchWithoutMutex ==
    \A t \in Tasks : task[t].pc = "search" => indexMutex.holder # t

---------------------------------------------------------------------------
(* OrganizationGateway: organizations and the tags they own *)

MaxOrgs == 3

MaxOrgTags == 2

OrgIds == 1..MaxOrgs

OwnedTagIds == 1..MaxOrgTags

\* The owned_tags an organization is created with: a Vec without repetition
OwnedTagVecs ==
    {<<>>} \cup {<<t>> : t \in OwnedTagIds}
           \cup {x \in OwnedTagIds \X OwnedTagIds : x[1] # x[2]}

\* OrganizationGateway::create_org: the organization and its relations are
\* inserted in one transaction; the organization id is the primary key
create_org(d, id, owned_tags) ==
    IF id \in d.organizations THEN Err(d, RepoErrorFrom("DatabaseError"))
    ELSE Ok([d EXCEPT
               !.organizations = @ \cup {id},
               !.org_tag_relations =
                   @ \o [k \in 1..Len(owned_tags) |-> [org_id |-> id, tag_id |-> owned_tags[k]]]])

\* Vec::dedup: removes consecutive repeated elements
RECURSIVE dedup(_)
dedup(v) ==
    IF Len(v) <= 1 THEN v
    ELSE IF v[1] = v[2] THEN dedup(Tail(v))
    ELSE <<v[1]>> \o dedup(Tail(v))

\* OrganizationGateway::get_all_tags_owned_by_orgs
get_all_tags_owned_by_orgs(d) ==
    dedup([k \in 1..Len(d.org_tag_relations) |-> d.org_tag_relations[k].tag_id])

CreateOrgCall ==
    \E id \in OrgIds, owned_tags \in OwnedTagVecs :
        LET r == create_org(db, id, owned_tags)
        IN  /\ db' = Transaction(db, r)
            /\ last' = [op |-> "create_org", res |-> r.res]
            /\ UNCHANGED <<debug_assertions, clock, task, storeLock, idxWriter, idxReader,
                           notified, on_conflict, budget, indexMutex>>

GetAllTagsOwnedByOrgsCall ==
    /\ last' = [op |-> "get_all_tags_owned_by_orgs", res |-> "Ok",
                tags |-> get_all_tags_owned_by_orgs(db)]
    /\ UNCHANGED <<db, debug_assertions, clock, task, storeLock, idxWriter, idxReader,
                   notified, on_conflict, budget, indexMutex>>

InitOrgs ==
    /\ InitCommon
    /\ budget = 0
    /\ debug_assertions = FALSE
    /\ on_conflict = "replace"

NextOrgs == CreateOrgCall \/ GetAllTagsOwnedByOrgsCall

SpecOrgs == InitOrgs /\ [][NextOrgs]_vars

\* C33: get_all_tags_owned_by_orgs returns every tag owned by at least one
\* organization, each exactly once.
C33_OwnedTagsOnce ==
    last.op = "get_all_tags_owned_by_orgs"
    => LET owned == {db.org_tag_relations[k].tag_id : k \in 1..Len(db.org_tag_relations)}
       IN  /\ {last.tags[k] : k \in 1..Len(last.tags)} = owned
           /\ Len(last.tags) = Cardinality(owned)

---------------------------------------------------------------------------
(* The rating boost of the score-boosted ranking.  Ratings are counted in
   steps of 1/RatingScale; a rating read back from its fast field, and a
   boost factor, are counted in steps of 1/One, which makes every value of
   the computation an integer.  The fast field has the width of U64Max *)

RatingScale == 10

MaxScore == 3

U64Max == 65535

AvgRatingMin == -1

AvgRatingMax == 2

AvgRatingDefault == 0

RatingContextCount == 6

One == RatingScale * U64Max

\* The total ratings a document can have, and the unboosted scores
\* (1.0 + original_score).log2() of a document, which are not negative
TotalRatings == (AvgRatingMin * RatingScale)..(AvgRatingMax * RatingScale)

UnboostedScores == 0..MaxScore

\* f64_to_u64: val, min and max in steps of 1/RatingScale
f64_to_u64(val, min, max) ==
    IF val = max THEN U64Max
    ELSE IF val = min THEN 0
    ELSE LET clamped == IF val < min THEN min ELSE IF val > max THEN max ELSE val
         IN  (2 * U64Max * (clamped - min) + (max - min)) \div (2 * (max - min))

\* u64_to_f64: min and max in steps of 1/RatingScale, the result in steps of 1/One
u64_to_f64(val, min, max) ==
    IF val = U64Max THEN max * U64Max
    ELSE IF val = 0 THEN min * U64Max
    ELSE min * U64Max + val * (max - min)

avg_rating_to_u64(avg_rating) ==
    f64_to_u64(avg_rating, AvgRatingMin * RatingScale, AvgRatingMax * RatingScale)

u64_to_avg_rating(val) ==
    u64_to_f64(val, AvgRatingMin * RatingScale, AvgRatingMax * RatingScale)

\* Mutant: the boost of a rating at or above the default without the 1.0
boost_factor_without_one(total_rating) ==
    IF total_rating < AvgRatingDefault * One
    THEN (total_rating - AvgRatingMin * One) \div (AvgRatingDefault - AvgRatingMin)
    ELSE RatingContextCount * (total_rating - AvgRatingDefault * One)

\* boost_factor of tweak_score: total_rating and the result in steps of 1/One
boost_factor(total_rating) ==
    IF total_rating < AvgRatingDefault * One
    THEN (total_rating - AvgRatingMin * One) \div (AvgRatingDefault - AvgRatingMin)
    ELSE One + RatingContextCount * (total_rating - AvgRatingDefault * One)

\* The closure given to tweak_score, for the value of the fast field
tweak_score(unboosted_score, total_rating_field) ==
    unboosted_score * boost_factor(u64_to_avg_rating(total_rating_field))

\* A document with the given total rating is scored
TweakScoreCall ==
    /\ last.op = "document"
    /\ LET field == avg_rating_to_u64(last.rating)
       IN  last' = [op |-> "tweak_score", res |-> "Ok", rating |-> last.rating,
                    score |-> last.score, field |-> field,
                    boost |-> boost_factor(u64_to_avg_rating(field)),
                    tweaked |-> tweak_score(last.score, field)]
    /\ UNCHANGED <<db, debug_assertions, clock, task, storeLock, idxWriter, idxReader,
                   notified, on_conflict, budget, indexMutex>>

InitBoost ==
    /\ db = [EmptyDb EXCEPT !.users = InitialUsers]
    /\ clock = 1
    /\ \E rating \in TotalRatings, score \in UnboostedScores :
          last = [op |-> "document", res |-> "none", rating |-> rating, score |-> score]
    /\ task = [t \in Tasks |-> IdleTask]
    /\ storeLock = None
    /\ idxWriter = {}
    /\ idxReader = {}
    /\ notified = {}
    /\ indexMutex = [holder |-> None, poisoned |-> FALSE]
    /\ budget = 0
    /\ debug_assertions = FALSE
    /\ on_conflict = "replace"

NextBoost == TweakScoreCall

SpecBoost == InitBoost /\ [][NextBoost]_vars

\* C40: the boost of a document is 1 for total rating 0, 0 for the minimum
\* total rating and 1 + 6 * MAX for the maximum; no document with a higher
\* total rating has a lower boost, and with the same unboosted score none
\* has a lower tweaked score.
C40_RatingBoost ==
    last.op = "tweak_score"
    => /\ last.rating = AvgRatingDefault * RatingScale => last.boost = One
       /\ last.rating = AvgRatingMin * RatingScale => last.boost = 0
       /\ last.rating = AvgRatingMax * RatingScale
             => last.boost = One + RatingContextCount * AvgRatingMax * One
       /\ \A higher \in TotalRatings :
             higher > last.rating
             => /\ boost_factor(u64_to_avg_rating(avg_rating_to_u64(higher))) >= last.boost
                /\ tweak_score(last.score, avg_rating_to_u64(higher)) >= last.tweaked

\* C40 witness: a document with the maximum total rating and the highest
\* unboosted score has been scored
C40_Witness ==
    /\ last.op = "tweak_score"
    /\ last.rating = AvgRatingMax * RatingScale
    /\ last.score = MaxScore
    /\ last.field = U64Max
    /\ last.tweaked = MaxScore * (One + RatingContextCount * AvgRatingMax * One)

---------------------------------------------------------------------------
(* Users and their roles *)

UserEmails == {u.email : u \in InitialUsers}

\* UserGateway::try_get_user_by_email: the user, if there is one
try_get_user_by_email(d, email) == {u \in d.users : u.email = email}

\* UserGateway::update_user: UPDATE users SET ... WHERE email = u.email
update_user(d, u) ==
    Ok([d EXCEPT !.users = {IF x.email = u.email THEN u ELSE x : x \in @}])

\* Mutant: the new role is not compared with the role of the account
change_user_role_any_role(d, account_email, user_email, role) ==
    LET account == try_get_user_by_email(d, account_email)
        user == try_get_user_by_email(d, user_email)
    IN  IF account = {} \/ user = {} THEN Err(d, "UserDoesNotExist")
        ELSE LET a == CHOOSE x \in account : TRUE
                 u == CHOOSE x \in user : TRUE
             IN  IF a.role > u.role
                 THEN update_user(d, [u EXCEPT !.role = role])
                 ELSE Err(d, "Forbidden")

\* usecases::change_user_role
change_user_role(d, account_email, user_email, role) ==
    LET account == try_get_user_by_email(d, account_email)
        user == try_get_user_by_email(d, user_email)
    IN  IF account = {} \/ user = {} THEN Err(d, "UserDoesNotExist")
        ELSE LET a == CHOOSE x \in account : TRUE
                 u == CHOOSE x \in user : TRUE
             IN  IF a.role > u.role /\ role < a.role
                 THEN update_user(d, [u EXCEPT !.role = role])
                 ELSE Err(d, "Forbidden")

ChangeUserRole ==
    \E actor \in UserEmails \cup {None}, target \in UserEmails \cup {None}, role \in Roles :
        LET r == change_user_role(db, actor, target, role)
        IN  /\ db' = r.db
            /\ last' = [op |-> "change_user_role", res |-> r.res, actor |-> actor,
                        target |-> target, role |-> role]
            /\ UNCHANGED <<debug_assertions, clock, task, storeLock, idxWriter, idxReader,
                           notified, on_conflict, budget, indexMutex>>

InitUsers ==
    /\ InitCommon
    /\ budget = 0
    /\ debug_assertions \in BOOLEAN
    /\ on_conflict = "replace"

NextUsers == ChangeUserRole

SpecUsers == InitUsers /\ [][NextUsers]_vars

\* C11: change_user_role between two existing users succeeds and gives the
\* target the new role exactly when the actor's role is above the target's
\* and above the new role; otherwise it fails with Forbidden and no role changes.
C11_ChangeUserRole ==
    [][ (/\ last'.op = "change_user_role"
         /\ (last' # last \/ db' # db)
         /\ try_get_user_by_email(db, last'.actor) # {}
         /\ try_get_user_by_email(db, last'.target) # {})
        => IF RoleOf(db, last'.actor) > RoleOf(db, last'.target)
              /\ last'.role < RoleOf(db, last'.actor)
           THEN /\ last'.res = "Ok"
                /\ RoleOf(db', last'.target) = last'.role
                /\ \A u \in db.users : u.email # last'.target => u \in db'.users
                /\ {u.email : u \in db'.users} = {u.email : u \in db.users}
           ELSE /\ last'.res = "Forbidden"
                /\ db' = db
      ]_vars

\* C11 witness: after an admin has made the user a scout, a scout has been
\* refused the change of the admin to user
C11_Witness ==
    /\ last.op = "change_user_role"
    /\ last.res = "Forbidden"
    /\ RoleOf(db, last.actor) = RoleScout
    /\ RoleOf(db, last.target) = RoleAdmin
    /\ last.role = RoleUser
    /\ RoleOf(db, RoleUser + 1) = RoleScout

---------------------------------------------------------------------------
(* Claims about the flows *)

\* Task t takes the step of its flow that runs the store transaction
ExecStep(t, flow) ==
    task[t].flow = flow /\ task[t].pc = "exec" /\ task'[t].pc # "exec"

\* C4: when a create_place flow that ran alone has returned and its flush
\* succeeded, the query by the uid of the new place with limit 1 returns
\* exactly the stored place; when an archive_places flow that ran alone has
\* returned Ok and its flush succeeded, the same query returns nothing for
\* each of its places.
C4_IndexCoherence ==
    \A t \in Tasks :
        (task[t].pc = "done" /\ task[t].res = "Ok" /\ task[t].flushed /\ task[t].alone)
        => /\ task[t].flow = "create_place"
              => /\ EntryExists(db, task[t].uid)
                 /\ query_places(idxReader, {task[t].uid}, 1)
                      = <<Doc(task[t].uid, task[t].tags, {})>>
           /\ task[t].flow = "archive_places"
              => \A p \in task[t].ids : query_places(idxReader, {p}, 1) = <<>>

\* C4 witness: a place created and announced by a flow has been archived
\* by a later flow, which has flushed
C4_Witness ==
    \E t \in Tasks :
        /\ task[t].flow = "archive_places" /\ task[t].pc = "done"
        /\ task[t].res = "Ok" /\ task[t].flushed /\ task[t].alone
        /\ task[t].ids \cap notified # {}

\* C5: a flow touches the index, flushes and notifies only after its
\* transaction has committed and it has released the exclusive handle; after
\* its flush it touches the index no more; a flow whose transaction failed
\* returns at once, and the index and the notifications change in no other step.
C5_FlowOrdering ==
    [][ /\ \A t \in Tasks :
             /\ (task[t].pc \in PostPcs /\ task'[t] # task[t])
                => (task[t].committed /\ task[t].res = "Ok" /\ storeLock # t)
             /\ task[t].pc \in {"flush", "notify", "done"} => task'[t].pc \notin IndexPcs
             /\ (task[t].pc = "exec" /\ task'[t].pc # "exec" /\ task'[t].res # "Ok")
                => (task'[t].pc = "done" /\ ~task'[t].committed)
             /\ task[t].pc = "done" => task'[t].pc \in {"done", "idle"}
        /\ idxWriter' # idxWriter
             => \E t \in Tasks : task[t].pc \in IndexPcs /\ task'[t] # task[t]
        /\ idxReader' # idxReader
             => \E t \in Tasks : task[t].pc = "flush" /\ task'[t] # task[t]
        /\ notified' # notified
             => \E t \in Tasks : task[t].pc = "notify" /\ task'[t] # task[t]
      ]_vars

\* C5 witness: a flow whose transaction committed is about to flush what it
\* indexed, while another flow holds the exclusive handle
C5_Witness ==
    \E t, u \in Tasks :
        /\ task[t].flow = "archive_ratings" /\ task[t].pc = "flush" /\ task[t].committed
        /\ idxWriter # idxReader
        /\ storeLock = u /\ u # t

\* C6 (as amended): when the transaction of archive_places(ids) at time T
\* commits, every rating of a listed place that was live and every live
\* comment of those ratings has archived_at = T, no listed place is returned
\* by get_places, and the ratings and comments of the other places are
\* unchanged; once the flow has returned and its flush has succeeded, no
\* listed place is returned by an index query.
C6_ArchiveCascade ==
    /\ [][ \A t \in Tasks :
             (ExecStep(t, "archive_places") /\ task'[t].res = "Ok")
             => LET ids == task[t].ids
                    mine == {r \in db.rating : r.place \in ids}
                IN  /\ \A r \in mine : r.archived_at = None
                          => [r EXCEPT !.archived_at = clock] \in db'.rating
                    /\ \A c \in db.comment :
                          (c.archived_at = None /\ c.rating \in {r.uid : r \in mine})
                          => [c EXCEPT !.archived_at = clock] \in db'.comment
                    /\ get_entries(db', ids) = {}
                    /\ \A r \in db.rating \ mine :
                          r \in db'.rating /\ load_ratings(db', {r.uid}) = load_ratings(db, {r.uid})
                    /\ \A c \in db.comment : c.rating \notin {r.uid : r \in mine}
                          => c \in db'.comment
                                /\ load_comments(db', {c.uid}) = load_comments(db, {c.uid})
         ]_vars
    /\ [](\A t \in Tasks :
            (task[t].flow = "archive_places" /\ task[t].pc = "done" /\ task[t].res = "Ok"
                /\ task[t].flushed)
            => \A p \in task[t].ids : query_places(idxReader, {p}, 1) = <<>>)

\* C6 witness: the flow has archived a place together with a rating and a
\* comment, and a live rating of another place is still loadable
C6_Witness ==
    \E t \in Tasks :
        /\ task[t].flow = "archive_places" /\ task[t].pc = "done"
        /\ task[t].res = "Ok" /\ task[t].flushed
        /\ \E r \in db.rating :
             /\ r.place \in task[t].ids /\ r.archived_at # None
             /\ \E c \in db.comment : c.rating = r.uid /\ c.archived_at = r.archived_at
        /\ \E r \in db.rating : r.place \notin task[t].ids /\ r.archived_at = None

\* C6 as stated: once archive_places has succeeded, no listed place is
\* returned by an index query (whether or not the flush went through)
C6_AbsentFromIndexOnSuccess ==
    \A t \in Tasks :
        (task[t].flow = "archive_places" /\ task[t].pc = "done" /\ task[t].res = "Ok")
        => \A p \in task[t].ids : query_places(idxReader, {p}, 1) = <<>>

\* The current revision of the place is archived
IsArchived(d, uid) == \E r \in CurrentRevs(d) : r.place = uid /\ r.status = StatusArchived

\* C7: when the list given to archive_places holds a place that is archived
\* already, the flow fails with NotFound, the store and the index are as they
\* were, and the flow returns without touching the index: every listed place
\* that was live is still loaded by get_place and found by index queries.
C7_ArchivePlacesAllOrNothing ==
    [][ \A t \in Tasks :
          (ExecStep(t, "archive_places") /\ \E p \in task[t].ids : IsArchived(db, p))
          => /\ task'[t].res = "NotFound"
             /\ task'[t].pc = "done"
             /\ db' = db
             /\ idxWriter' = idxWriter /\ idxReader' = idxReader
             /\ \A q \in task[t].ids :
                   /\ get_entry(db', q) = get_entry(db, q)
                   /\ query_places(idxReader', {q}, 1) = query_places(idxReader, {q}, 1)
      ]_vars

\* C7 witness: the flow has failed on a list that holds an archived place and
\* a live place, and the live place is in the store and in the index
C7_Witness ==
    \E t \in Tasks :
        /\ task[t].flow = "archive_places" /\ task[t].pc = "done"
        /\ task[t].res = "NotFound"
        /\ \E p, q \in task[t].ids :
             /\ IsArchived(db, p)
             /\ EntryExists(db, q)
             /\ query_places(idxReader, {q}, 1) # <<>>

\* C8: archive_ratings called by a scout or an admin: when a listed rating
\* is archived already or does not exist, the flow fails with NotFound and
\* the store is as before; otherwise it succeeds, the listed ratings and
\* their comments are no longer loadable, every other rating and comment is
\* unchanged, and the places are untouched.
C8_ArchiveRatingsAllOrNothing ==
    [][ \A t \in Tasks :
          (ExecStep(t, "archive_ratings") /\ RoleOf(db, task[t].account) >= RoleScout)
          => LET ids == task[t].ids
             IN  IF \E id \in ids : ~RatingExists(db, id)
                 THEN /\ task'[t].res = "NotFound"
                      /\ task'[t].pc = "done"
                      /\ db' = db
                 ELSE /\ task'[t].res = "Ok"
                      /\ \A id \in ids :
                            load_ratings(db', {id}) = {} /\ load_comments_of_rating(db', id) = {}
                      /\ \A r \in db.rating : r.uid \notin ids => r \in db'.rating
                      /\ \A c \in db.comment : c.rating \notin ids => c \in db'.comment
                      /\ db'.place = db.place /\ db'.place_rev = db.place_rev
                      /\ db'.log = db.log
      ]_vars

\* C8 witness: the flow has failed on a list that holds an archived rating
\* and a live rating, and the live rating is still loadable
C8_Witness ==
    \E t \in Tasks :
        /\ task[t].flow = "archive_ratings" /\ task[t].pc = "done"
        /\ task[t].res = "NotFound"
        /\ RoleOf(db, task[t].account) >= RoleScout
        /\ \E a, b \in task[t].ids :
             /\ RatingExists(db, b)
             /\ \E r \in db.rating : r.uid = a /\ r.archived_at # None

---------------------------------------------------------------------------
(* Claims about the place store *)

RevsOf(d, uid) == {r \in d.place_rev : r.place = uid}

\* C1: every place has exactly one revision row whose rev equals the place's
\* current-revision pointer, after successful and after failed calls alike.
C1_OneCurrentRevision ==
    \A p \in db.place :
        Cardinality({r \in RevsOf(db, p.uid) : r.rev = p.rev}) = 1

\* C1 witness: a place was updated and archived, and the last call failed
C1_Witness ==
    /\ last.op = "create_or_update_place"
    /\ last.res # "Ok"
    /\ \E p \in db.place :
         /\ p.rev >= 1
         /\ \E r \in RevsOf(db, p.uid) : r.status = StatusArchived

\* C2: the revision numbers stored for each place are exactly 0..current_rev.
C2_RevisionPrefix ==
    \A p \in db.place : {r.rev : r \in RevsOf(db, p.uid)} = 0..p.rev

\* The current pointer of the place uid is rev (no place: no pointer matches)
PointerIs(d, uid, rev) == \E p \in d.place : p.uid = uid /\ p.rev = rev

\* A direct call of the given gateway method takes place in this step
CallStep(op) == last'.op = op /\ (last' # last \/ db' # db)

\* C3: create_or_update_place with rev > 0 for a place whose current pointer
\* is not rev - 1 fails with Conflict and leaves the store unchanged.
C3_ConflictOnStaleRevision ==
    [][ (/\ CallStep("create_or_update_place")
         /\ last'.version > 0
         /\ ~PointerIs(db, last'.uid, last'.version - 1))
        => (last'.res = "Conflict" /\ db' = db) ]_vars

\* C14: archive_places on a list with a uid that is not a stored place fails
\* with NotFound and archives nothing; when it succeeds, the number it
\* returns is the number of places that went from live to archived.
C14_ArchiveUnknownPlace ==
    [][ CallStep("archive_places")
        => /\ (\E uid \in last'.ids : ~PlaceExists(db, uid))
                => (last'.res = "NotFound" /\ db' = db)
           /\ last'.res = "Ok"
                => last'.count = Cardinality({uid \in last'.ids :
                                    EntryExists(db, uid) /\ IsArchived(db', uid)})
      ]_vars

---------------------------------------------------------------------------
(* Claims about the errors of the flows *)

C16_RollbackReturnsCause ==
    [][\A t \in Tasks :
         (task[t].pc = "exec" /\ task'[t].pc # "exec" /\ ~task'[t].committed)
         => /\ db' = db
            /\ task'[t].pc = "done"
            /\ task'[t].res = task'[t].cause]_vars

---------------------------------------------------------------------------
(* Claims about reading the place store *)

\* Place uid is the only place; it was created, then updated to revision 1,
\* then archived at a later time
CreatedUpdatedArchived(d, uid) ==
    /\ d.place = {[uid |-> uid, rev |-> 1]}
    /\ Len(d.log) = 3
    /\ \E r0, r1 \in d.place_rev :
          /\ r0.place = uid /\ r0.rev = 0 /\ r1.place = uid /\ r1.rev = 1
          /\ d.log[1].place_rev_id = r0.id /\ d.log[1].status = StatusCreated
          /\ d.log[2].place_rev_id = r1.id /\ d.log[2].status = StatusCreated
          /\ d.log[3].place_rev_id = r1.id /\ d.log[3].status = StatusArchived
          /\ d.log[3].created_at > d.log[2].created_at

\* C22: after a place was created, updated and archived, get_places of its
\* uid is empty and recently_changed(None, None, 0, 10) returns three
\* entries: archived, created of revision 1, created of revision 0.
C22_CreateUpdateArchive ==
    \A uid \in PlaceUids :
        CreatedUpdatedArchived(db, uid)
        => /\ get_entries(db, {uid}) = {}
           /\ LET rc == recently_changed_entries(db, None, None, 0, 10)
              IN  /\ Len(rc) = 3
                  /\ rc[1].status = StatusArchived /\ rc[1].rev = 1
                  /\ rc[2].status = StatusCreated /\ rc[2].rev = 1
                  /\ rc[3].status = StatusCreated /\ rc[3].rev = 0

\* C23: get_places returns for each of the given places its current
\* revision and nothing else, and only when the status of that revision is at
\* least created; after a successful update it returns the revision just
\* stored and no older one; for an archived place it returns nothing and
\* get_place fails with NotFound.
C23_GetPlacesCurrentRevision ==
    /\ [](\A uids \in SUBSET PlaceUids :
            /\ \A r \in get_entries(db, uids) :
                  /\ uids # {} => r.place \in uids
                  /\ PointerIs(db, r.place, r.rev)
                  /\ r.status >= StatusCreated
            /\ \A p \in db.place :
                  Cardinality({r \in get_entries(db, uids) : r.place = p.uid}) <= 1
            /\ \A uid \in uids :
                  IsArchived(db, uid)
                  => (get_entries(db, {uid}) = {} /\ get_place(db, uid).res = "NotFound"))
    /\ [][ (/\ CallStep("create_or_update_place")
             /\ last'.res = "Ok" /\ last'.version > 0 /\ last'.archived_at = None)
            => (/\ get_place(db', last'.uid).res = "Ok"
                /\ \A r \in get_entries(db', {last'.uid}) : r.rev = last'.version) ]_vars

---------------------------------------------------------------------------
(* Claims about the status log *)

\* The status-log entries of a revision, oldest first
LogOf(d, rev_id) == SelectSeq(d.log, LAMBDA l : l.place_rev_id = rev_id)

\* The revisions that are new in e or have another status in e than in d
Transitions(d, e) ==
    {r \in e.place_rev : ~ \E q \in d.place_rev : q.id = r.id /\ q.status = r.status}

\* C29: every revision has a status-log entry and the status of its most
\* recent entry is the status on the revision row; every step appends to the
\* log exactly one entry for each revision it inserts or whose status it
\* changes, with the new status, and changes nothing else in the log.
C29_StatusLogFollowsStatus ==
    /\ [](\A r \in db.place_rev :
            /\ LogOf(db, r.id) # <<>>
            /\ LogOf(db, r.id)[Len(LogOf(db, r.id))].status = r.status)
    /\ [][ LET added == SubSeq(db'.log, Len(db.log) + 1, Len(db'.log))
           IN  /\ Len(db'.log) >= Len(db.log)
               /\ SubSeq(db'.log, 1, Len(db.log)) = db.log
               /\ Len(added) = Cardinality(Transitions(db, db'))
               /\ \A r \in Transitions(db, db') :
                    \E i \in 1..Len(added) :
                       added[i].place_rev_id = r.id /\ added[i].status = r.status
         ]_vars

\* C29 witness: a revision that was created and then archived has its two
\* log entries, and another call has failed since
C29_Witness ==
    /\ last.op = "create_or_update_place"
    /\ last.res # "Ok"
    /\ \E r \in db.place_rev :
         /\ r.status = StatusArchived
         /\ Len(LogOf(db, r.id)) = 2

\* C30: create_or_update_place for a revision whose archived_at is set, made
\* where the same call without archived_at would succeed, returns Ok and
\* has stored the revision with status archived and appended a status-log
\* entry with status archived for it.
C30_ArchivedRevisionIsStored ==
    [][ (/\ CallStep("create_or_update_place")
         /\ last'.archived_at # None
         /\ IF last'.version = 0 THEN ~PlaceExists(db, last'.uid)
            ELSE PointerIs(db, last'.uid, last'.version - 1))
        => /\ last'.res = "Ok"
           /\ \E r \in db'.place_rev \ db.place_rev :
                /\ r.place = last'.uid
                /\ r.rev = last'.version
                /\ r.status = StatusArchived
                /\ Len(db'.log) = Len(db.log) + 1
                /\ db'.log[Len(db'.log)].place_rev_id = r.id
                /\ db'.log[Len(db'.log)].status = StatusArchived
      ]_vars

\* C31: each item returned by recently_changed reports the status of the log
\* entry it stands for: the item of a log entry with status created is not
\* reported as archived (its archived_at is unset), also when the revision
\* was archived later, and its created_at is that of the log entry.
C31_HistoricalStatus ==
    LET rows == recently_changed_entries(db, None, None, 0, None)
        items == recently_changed(db, None, None, 0, None)
    IN  \A k \in 1..Len(rows) :
            /\ items[k].created_at = rows[k].created_at
            /\ rows[k].status = StatusCreated => items[k].archived_at = None

\* The number of places whose current revision has status >= created and
\* carries the tag
TagUsage(d, t) ==
    Cardinality({r \in CurrentRevs(d) :
                   r.status >= StatusCreated /\ t \in TagsOfRev(d, r.id)})

\* C32: most_popular_tags returns, for any count bounds, exactly the tags
\* whose number of places with a current revision of status >= created
\* carrying the tag lies within [min_count, max_count], each with that
\* number, ordered by count descending and then tag ascending.
C32_MostPopularTags ==
    \A min_count, max_count \in {None, 1, 2} :
        LET r == most_popular_entry_tags(db, min_count, max_count, 0, None)
            expected == {t \in TagIds : /\ TagUsage(db, t) > 0
                                        /\ min_count = None \/ TagUsage(db, t) >= min_count
                                        /\ max_count = None \/ TagUsage(db, t) <= max_count}
        IN  /\ r.res = "Ok"
            /\ {r.tags[k].tag : k \in 1..Len(r.tags)} = expected
            /\ Len(r.tags) = Cardinality(expected)
            /\ \A k \in 1..Len(r.tags) : r.tags[k].count = TagUsage(db, r.tags[k].tag)
            /\ \A j, k \in 1..Len(r.tags) :
                 j < k => \/ r.tags[j].count > r.tags[k].count
                          \/ r.tags[j].count = r.tags[k].count /\ r.tags[j].tag < r.tags[k].tag

\* C38: count_entries equals the number of places returned by all_entries,
\* the places whose current revision has status >= created.
C38_CountEntries ==
    /\ count_entries(db) = Cardinality(all_entries(db))
    /\ all_entries(db) = {r \in CurrentRevs(db) : r.status >= StatusCreated}

\* The documents held for a place id
DocsOf(docs, uid) == {x \in docs : x.id = uid}

\* C34: the view seen by queries holds at most one document per place id; the
\* pending writes hold for each id the document of the last
\* add_or_update_place, or nothing after a remove_place_by_id, and leave the
\* other ids as they are; a successful flush makes exactly the pending
\* writes the view, so that each id shows its last document written before
\* that flush, or none if it was removed since.
C34_OneDocumentPerPlace ==
    /\ [](\A uid \in PlaceUids : Cardinality(DocsOf(idxReader, uid)) <= 1)
    /\ [][ /\ last'.op = "add_or_update_place"
                => /\ DocsOf(idxWriter', last'.doc.id) = {last'.doc}
                   /\ \A uid \in PlaceUids \ {last'.doc.id} :
                         DocsOf(idxWriter', uid) = DocsOf(idxWriter, uid)
           /\ last'.op = "remove_place_by_id"
                => /\ DocsOf(idxWriter', last'.id) = {}
                   /\ \A uid \in PlaceUids \ {last'.id} :
                         DocsOf(idxWriter', uid) = DocsOf(idxWriter, uid)
           /\ (last'.op = "flush" /\ last'.res = "Ok")
                => /\ idxWriter' = idxWriter
                   /\ \A uid \in PlaceUids : DocsOf(idxReader', uid) = DocsOf(idxWriter, uid)
         ]_vars

\* C34 witness: after a flush the view holds one document for each of two
\* places, with different ratings
C34_Witness ==
    /\ last.op = "flush"
    /\ last.res = "Ok"
    /\ \E x, y \in idxReader : x.id # y.id /\ x.total # y.total
    /\ \A uid \in PlaceUids : Cardinality(DocsOf(idxReader, uid)) = 1

\* C35: add_or_update_place and remove_place_by_id leave the result of every
\* query as it was; the view seen by query_places changes in no step but a
\* successful flush.
C35_ViewChangesOnlyAtFlush ==
    [][ /\ last'.op \in {"add_or_update_place", "remove_place_by_id"}
             => \A ids \in SUBSET PlaceUids, limit \in 1..MaxLimit :
                   query_places(idxReader', ids, limit) = query_places(idxReader, ids, limit)
        /\ idxReader' # idxReader => (last'.op = "flush" /\ last'.res = "Ok")
      ]_vars

\* C35 witness: a place that the queries return has been written again with
\* other ratings, and the queries still return the flushed document
C35_Witness ==
    /\ last.op = "add_or_update_place"
    /\ last.doc \notin idxReader
    /\ \E x \in idxReader : x.id = last.doc.id /\ x.total # last.doc.total
    /\ query_places(idxReader, {last.doc.id}, 1) # <<last.doc>>

\* C36: once all flows have completed and the index holds no write that is
\* not flushed, no place whose current revision is archived in the store is
\* returned by a query of the index, however the flows were interleaved.
C36_IndexAgreesWithStore ==
    (/\ \A t \in Tasks : task[t].pc \in {"idle", "done"}
     /\ idxReader = idxWriter)
    => \A uid \in PlaceUids :
          IsArchived(db, uid) => query_places(idxReader, {uid}, 1) = <<>>

\* C37: whenever the role of a user changes, the change was made by a
\* successful change_user_role of another account, the new role is below the
\* role of that account and therefore below Admin, and the user was not an
\* Admin; the Admins are at all times those of the initial state.
C37_NoPrivilegeEscalation ==
    /\ [](\A u \in db.users :
            u.role = RoleAdmin <=> \E i \in InitialUsers : i.email = u.email /\ i.role = RoleAdmin)
    /\ [][ \A u \in db.users :
             RoleOf(db', u.email) # u.role
             => /\ last'.op = "change_user_role"
                /\ last'.res = "Ok"
                /\ last'.target = u.email
                /\ last'.actor # u.email
                /\ RoleOf(db', u.email) = last'.role
                /\ last'.role < RoleOf(db, last'.actor)
                /\ last'.role < RoleAdmin
                /\ u.role < RoleAdmin
                /\ u.role < RoleOf(db, last'.actor)
         ]_vars

\* C37 witness: a scout has raised a guest to user
C37_Witness ==
    /\ last.op = "change_user_role"
    /\ last.res = "Ok"
    /\ last.actor = RoleScout + 1
    /\ last.target = RoleGuest + 1
    /\ last.role = RoleUser
    /\ RoleOf(db, last.actor) = RoleScout
    /\ RoleOf(db, last.target) = RoleUser

\* C39: the transaction of create_place, given a legal position, succeeds
\* and adds exactly one place, with the pointer at revision 0, and exactly
\* one revision, number 0 of that place in status created and carrying the
\* given tags, and every tag of the place is in the tag table afterwards;
\* given an illegal position it fails and leaves the store as it was: no
\* place, no revision and no tag is stored.
C39_CreateYieldsRevisionZero ==
    [][ \A t \in Tasks :
          ExecStep(t, "create_place")
          => IF try_from_lat_lng_deg(task[t].lat)
             THEN /\ task'[t].res = "Ok"
                  /\ db.place \subseteq db'.place
                  /\ db'.place \ db.place = {[uid |-> task'[t].uid, rev |-> 0]}
                  /\ db.place_rev \subseteq db'.place_rev
                  /\ \E r \in db'.place_rev :
                        /\ db'.place_rev \ db.place_rev = {r}
                        /\ r.place = task'[t].uid
                        /\ r.rev = 0
                        /\ r.status = StatusCreated
                        /\ TagsOfRev(db', r.id) = task[t].tags
                  /\ task[t].tags \subseteq db'.tags
             ELSE /\ task'[t].res # "Ok"
                  /\ task'[t].pc = "done"
                  /\ db' = db
      ]_vars

\* C39 witness: the transaction of create_place has stored a second place,
\* with a tag, at revision 0
C39_Witness ==
    \E t \in Tasks :
        /\ task[t].flow = "create_place"
        /\ task[t].pc = "index"
        /\ task[t].tags # {}
        /\ task[t].tags \subseteq db.tags
        /\ [uid |-> task[t].uid, rev |-> 0] \in db.place
        /\ Cardinality(db.place) = 2

====
